---- MODULE Spec2Model ----
(***************************************************************************)
(* Model of the RunPod monitor bot (src/runpod_monitor.py): the            *)
(* authorization guard, the command handlers, the button dispatcher with   *)
(* the pod-creation wizard, and the polling tick.                          *)
(*                                                                         *)
(* Python values are modelled as follows.                                  *)
(*   - a str is a sequence of atoms; an atom is one character, or an       *)
(*     indivisible run of characters (a keyword such as "crtpl_", a word   *)
(*     such as "8888/http") that no operation of the program splits;       *)
(*   - a dict is a function whose DOMAIN is the set of keys present;       *)
(*   - a value whose Python type varies (None, str, list) is tagged with   *)
(*     its type: [t |-> "none" | "str" | "list", v |-> ...].               *)
(* The application is built without concurrent_updates, so the dispatcher  *)
(* handles one update to completion before the next: one action is one     *)
(* whole handler invocation.                                               *)
(***************************************************************************)
EXTENDS Integers, Sequences, FiniteSets, Bags, TLC

\* ------------------------------------------------------------------------
\* Bounds of the model
\* ------------------------------------------------------------------------
\* instances in one answer of runpod.get_pods()
MaxPods == 2

\* characters by which the template names given to generate_pod_name vary
MaxNameTail == 3

\* /create invocations of one user that stored a session and were not yet
\* followed by a creation request
MaxOpened == 2

\* bot processes the tray supervisor launches
MaxLaunched == 3

\* start, stop and restart requests made from the tray menu and the log window
MaxRequests == 3

\* ------------------------------------------------------------------------
\* Python helpers
\* ------------------------------------------------------------------------
Min(a, b) == IF a < b THEN a ELSE b

EmptyDict == <<>>

Has(d, k) == k \in DOMAIN d

Get(d, k, default) == IF k \in DOMAIN d THEN d[k] ELSE default

Put(d, k, val) == [x \in (DOMAIN d) \cup {k} |-> IF x = k THEN val ELSE d[x]]

Del(d, k) == [x \in (DOMAIN d) \ {k} |-> d[x]]

None == [t |-> "none", v |-> <<>>]

Str(s) == [t |-> "str", v |-> s]

List(l) == [t |-> "list", v |-> l]

\* truth value of a tagged value: None, "" and [] are falsy
Truthy(x) == x.t # "none" /\ x.v # <<>>

\* s[:n]
Take(s, n) == SubSeq(s, 1, Min(n, Len(s)))

\* s[n:]
Drop(s, n) == SubSeq(s, n + 1, Len(s))

\* s[i] for an int i: a negative i counts from the end
Index(s, i) == IF i < 0 THEN s[Len(s) + i + 1] ELSE s[i + 1]

StartsWith(s, p) == Len(s) >= Len(p) /\ SubSeq(s, 1, Len(p)) = p

\* the whitespace atoms of the model's alphabet
Whitespace == {" ", "\t", "\n"}

RECURSIVE LStrip(_)
LStrip(s) == IF s # <<>> /\ Head(s) \in Whitespace THEN LStrip(Tail(s)) ELSE s

RECURSIVE RStrip(_)
RStrip(s) ==
    IF s # <<>> /\ s[Len(s)] \in Whitespace THEN RStrip(SubSeq(s, 1, Len(s) - 1)) ELSE s

\* str.strip()
Strip(s) == RStrip(LStrip(s))

\* str.split(sep) for a one-atom separator: always at least one token
RECURSIVE SplitAcc(_, _, _)
SplitAcc(s, sep, cur) ==
    IF s = <<>> THEN <<cur>>
    ELSE IF Head(s) = sep THEN <<cur>> \o SplitAcc(Tail(s), sep, <<>>)
    ELSE SplitAcc(Tail(s), sep, Append(cur, Head(s)))

Split(s, sep) == SplitAcc(s, sep, <<>>)

\* str.split() without argument: runs of whitespace separate, no empty tokens
RECURSIVE SplitWSAcc(_, _)
SplitWSAcc(s, cur) ==
    IF s = <<>> THEN (IF cur = <<>> THEN <<>> ELSE <<cur>>)
    ELSE IF Head(s) \in Whitespace
         THEN (IF cur = <<>> THEN <<>> ELSE <<cur>>) \o SplitWSAcc(Tail(s), <<>>)
         ELSE SplitWSAcc(Tail(s), Append(cur, Head(s)))

SplitWS(s) == SplitWSAcc(s, <<>>)

\* str.replace(old, new) for one-atom old and new
Replace(s, old, new) == [i \in 1..Len(s) |-> IF s[i] = old THEN new ELSE s[i]]

DigitVal == [d \in {"0", "1", "2", "3", "4", "5", "6", "7", "8", "9"} |->
                CASE d = "0" -> 0 [] d = "1" -> 1 [] d = "2" -> 2 [] d = "3" -> 3
                  [] d = "4" -> 4 [] d = "5" -> 5 [] d = "6" -> 6 [] d = "7" -> 7
                  [] d = "8" -> 8 [] d = "9" -> 9]

DigitChar == <<"0", "1", "2", "3", "4", "5", "6", "7", "8", "9">>

RECURSIVE DigitsVal(_, _)
DigitsVal(s, acc) ==
    IF s = <<>> THEN acc ELSE DigitsVal(Tail(s), 10 * acc + DigitVal[Head(s)])

\* int(s): surrounding whitespace is ignored, an optional sign, then at least
\* one digit; anything else raises ValueError (ok = FALSE)
ParseInt(s) ==
    LET t == Strip(s)
        signed == t # <<>> /\ Head(t) \in {"+", "-"}
        body == IF signed THEN Tail(t) ELSE t
        wellFormed == body # <<>> /\ \A i \in 1..Len(body) : body[i] \in DOMAIN DigitVal
    IN  IF wellFormed
        THEN [ok |-> TRUE,
              val |-> IF signed /\ Head(t) = "-" THEN 0 - DigitsVal(body, 0)
                      ELSE DigitsVal(body, 0)]
        ELSE [ok |-> FALSE, val |-> 0]

RECURSIVE NatStr(_)
NatStr(n) == IF n < 10 THEN <<DigitChar[n + 1]>>
             ELSE Append(NatStr(n \div 10), DigitChar[(n % 10) + 1])

\* str(n) for an int
IntStr(n) == IF n < 0 THEN <<"-">> \o NatStr(0 - n) ELSE NatStr(n)

\* ------------------------------------------------------------------------
\* Configuration read from the environment at import time
\* ------------------------------------------------------------------------
DEFAULT_GPUS == <<"NVIDIA RTX A4500", "NVIDIA A100 80GB PCIe", "NVIDIA A100-SXM4-80GB">>

\* PREFERRED_GPUS is unset in the modelled deployment
PREFERRED_GPUS == DEFAULT_GPUS

\* values of the TELEGRAM_CHAT_ID variable: unset, "1", "01"
ChatIdSettings == {<<>>, <<"1">>, <<"0", "1">>}

\* values of RUNPOD_API_KEY and of TELEGRAM_BOT_TOKEN: unset, or a key
ApiKeySettings == {<<>>, <<"k">>}

BotTokenSettings == {<<>>, <<"b">>}

\* values of the ALLOWED_USER_IDS variable: unset, " 1 ,," and ", "
UserIdSettings == {<<>>, <<" ", "1", " ", ",", ",">>, <<",", " ">>}

\* senders and chats an update can come from
Users == {1, 2}

Chats == {1, 2}

\* ------------------------------------------------------------------------
\* What the provider can answer
\* ------------------------------------------------------------------------
\* failure details of a provider call (str(e))
ProviderErrors == {"timeout", "HTTP 500"}

\* instance records; costPerHr is counted in 1/10000 dollar
PodRecords ==
    { [id |-> <<"p", "-", "1">>, name |-> <<"n", "1">>, desiredStatus |-> "RUNNING",
       costPerHr |-> 15000, gpuTypeId |-> "NVIDIA A100",
       runtime |-> [uptimeInSeconds |-> 3725]],
      [id |-> <<"p", "2">>, desiredStatus |-> "EXITED", costPerHr |-> 5000,
       machine |-> [gpuDisplayName |-> "NVIDIA A100 80GB"]],
      [name |-> <<"n", "3">>, desiredStatus |-> "RUNNING", costPerHr |-> 2500] }

RECURSIVE SeqsUpTo(_, _)
SeqsUpTo(S, n) ==
    IF n = 0 THEN {<<>>}
    ELSE LET shorter == SeqsUpTo(S, n - 1)
         IN  shorter \cup {Append(q, x) : q \in shorter, x \in S}

\* outcomes of runpod.get_pods(): a list of instances, or an exception
GetPodsResults ==
    [ok : {TRUE}, pods : SeqsUpTo(PodRecords, MaxPods), err : {""}]
        \cup [ok : {FALSE}, pods : {<<>>}, err : ProviderErrors]

Template1 ==
    [id |-> <<"t", "1">>, name |-> <<"a", " ", "b">>, imageName |-> <<"img1">>,
     dockerArgs |-> Str(<<"-x", " ", " ", "-y">>), containerDiskInGb |-> 30,
     ports |-> Str(<<"80/http", ",", " ", "22/tcp", ",">>)]

Template2 ==
    [id |-> <<"t", "2">>, ports |-> List(<<<<"443/http">>>>)]

Template3 ==
    [id |-> <<"t", "3">>, dockerArgs |-> List(<<<<"-z">>>>)]

\* outcomes of GET /templates: a JSON list, a JSON value that is not a list,
\* or a failed request
TemplatesResults ==
    { [kind |-> "list", body |-> <<>>],
      [kind |-> "list", body |-> <<Template1, Template2, Template3>>],
      [kind |-> "other", body |-> <<>>] }
        \cup {[kind |-> "raise", body |-> <<>>]}

Volume1 ==
    [id |-> <<"v", "1">>, name |-> <<"vol1">>, size |-> 100, dataCenterId |-> <<"US-NY-1">>]

Volume2 == [id |-> <<"v", "2">>]

\* outcomes of GET /networkvolumes
VolumesResults ==
    { [kind |-> "list", body |-> <<>>],
      [kind |-> "list", body |-> <<Volume1, Volume2>>],
      [kind |-> "other", body |-> <<>>],
      [kind |-> "raise", body |-> <<>>] }

\* outcomes of POST /pods: a JSON object with or without an id, an HTTP error
\* status with a body, or another failure (timeout, connection)
CreateResults ==
    { [kind |-> "ok", text |-> <<>>, json |-> TRUE, body |-> [id |-> <<"new1">>]],
      [kind |-> "ok", text |-> <<>>, json |-> TRUE, body |-> EmptyDict],
      [kind |-> "http", text |-> <<"raw">>, json |-> TRUE,
       body |-> [error |-> [t |-> "dict", v |-> [message |-> <<"no gpu">>]]]],
      [kind |-> "http", text |-> <<"raw">>, json |-> TRUE,
       body |-> [error |-> Str(<<"bad request">>)]],
      [kind |-> "http", text |-> <<"raw">>, json |-> TRUE, body |-> EmptyDict],
      [kind |-> "http", text |-> <<"raw">>, json |-> FALSE, body |-> EmptyDict],
      [kind |-> "raise", text |-> <<>>, json |-> FALSE, body |-> EmptyDict] }

\* outcomes of runpod.terminate_pod / runpod.stop_pod and of bot.send_message
CallResults == {"ok", "raise"}

\* values of datetime.now().strftime("%m%d-%H%M")
Timestamps == {<<"0204-1530">>}

\* template names: up to MaxNameTail characters among a letter, a space and a
\* tab, alone or after 19 letters (so that the name is cut at 20 characters)
TemplateNames ==
    LET tails == SeqsUpTo({"a", " ", "\t"}, MaxNameTail)
    IN  tails \cup {[i \in 1..19 |-> "a"] \o t : t \in tails}

\* ------------------------------------------------------------------------
\* State
\* ------------------------------------------------------------------------
VARIABLES
    RUNPOD_API_KEY,     \* module constant, a str
    TELEGRAM_BOT_TOKEN, \* module constant, a str
    TELEGRAM_CHAT_ID,   \* module constant, a str
    ALLOWED_USER_IDS,   \* module constant, a str
    user_data,          \* context.user_data of every user: a dict
    unspent,            \* per user: /create invocations that stored a session, less
                        \* the create_pod_api calls issued
    progress,           \* per user: how far the steps taken since /create are in order
    last,               \* what the most recent handler invocation or tick did
    loop,               \* the process: how far main is, and where the poller task
                        \* and the update in progress stand on the event loop
    tray                \* the tray supervisor (TrayApp), its threads and the bot
                        \* processes it launched

vars == <<RUNPOD_API_KEY, TELEGRAM_BOT_TOKEN, TELEGRAM_CHAT_ID, ALLOWED_USER_IDS,
          user_data, unspent, progress, last, loop, tray>>

config == <<RUNPOD_API_KEY, TELEGRAM_BOT_TOKEN, TELEGRAM_CHAT_ID, ALLOWED_USER_IDS>>

\* the record kept of one handler invocation; polled is the answer a poll
\* tick or a template choice received from the provider, from is the sender's
\* progress before it
Trace(handler, u, c, data, auth, answered, out, calls, alerts, raised) ==
    [handler |-> handler, user |-> u, chat |-> c, data |-> data, auth |-> auth,
     answered |-> answered, out |-> out, calls |-> calls, alerts |-> alerts,
     raised |-> raised, polled |-> <<>>, order |-> <<>>,
     from |-> IF u \in DOMAIN progress THEN progress[u] ELSE "Idle"]

\* a message shown to the user (reply_text / edit_message_text)
Msg(text, args, keyboard) == [text |-> text, args |-> args, keyboard |-> keyboard]

\* a call made on the provider
Call(op, arg) == [op |-> op, arg |-> arg]

\* the fixed text every handler sends to a sender is_authorized rejects
DenialText == "permission denied"

Denied == Msg(DenialText, <<>>, <<>>)

\* the reply of a command whose provider call or formatting failed
GenericError == Msg("error, try again later", <<>>, <<>>)

\* the process when the module has been loaded and main has not run
Loaded ==
    [main |-> "start", handlers |-> {}, startup |-> "none", poller |-> "none",
     tick |-> "none", update |-> "none", waiting |-> "none", served |-> "none",
     thread |-> "free"]

Init ==
    /\ tray = [process |-> 0, running |-> FALSE, ran |-> FALSE, alive |-> {}, launched |-> 0,
               requests |-> 0, stopped |-> {}, notified |-> {}, threads |-> EmptyBag]
    /\ RUNPOD_API_KEY = <<"k">>
    /\ TELEGRAM_BOT_TOKEN = <<"b">>
    /\ loop = Loaded
    /\ TELEGRAM_CHAT_ID \in ChatIdSettings
    /\ ALLOWED_USER_IDS \in UserIdSettings
    /\ user_data = [u \in Users |-> EmptyDict]
    /\ unspent = [u \in Users |-> 0]
    /\ progress = [u \in Users |-> "Idle"]
    /\ last = Trace("init", 0, 0, <<>>, "none", 0, <<>>, <<>>, <<>>, "none")

\* ------------------------------------------------------------------------
\* Authorization guard
\* ------------------------------------------------------------------------
NonBlank(tok) == Strip(tok) # <<>>

UidOf(tok) == ParseInt(Strip(tok)).val

get_allowed_users(setting) ==
    IF setting = <<>> THEN {}
    ELSE LET toks == SelectSeq(Split(setting, ","), NonBlank)
         IN  {UidOf(toks[i]) : i \in 1..Len(toks)}

\* get_allowed_users and str(chat_id), tabulated over the model's settings
AllowedUsersOf == [setting \in UserIdSettings |-> get_allowed_users(setting)]

ChatStr == [chat_id \in Chats |-> IntStr(chat_id)]

\* is_authorized without the chat test
is_authorized_users_only(user_id, chat_id) ==
    LET allowed_users == AllowedUsersOf[ALLOWED_USER_IDS]
    IN  IF allowed_users # {} /\ user_id \notin allowed_users THEN FALSE
        ELSE TRUE

is_authorized(user_id, chat_id) ==
    LET allowed_users == AllowedUsersOf[ALLOWED_USER_IDS]
    IN  IF TELEGRAM_CHAT_ID # <<>> /\ ChatStr[chat_id] # TELEGRAM_CHAT_ID THEN FALSE
        ELSE IF allowed_users # {} /\ user_id \notin allowed_users THEN FALSE
        ELSE TRUE

AuthOf(u, c) == IF is_authorized(u, c) THEN "allow" ELSE "deny"

\* ------------------------------------------------------------------------
\* Formatting
\* ------------------------------------------------------------------------
format_uptime(seconds) ==
    IF seconds = 0 THEN <<"N/A">>
    ELSE <<seconds \div 3600, (seconds % 3600) \div 60, (seconds % 3600) % 60>>

\* the text block of one instance; a missing id raises KeyError
format_pod_info(pod) ==
    LET runtime == Get(pod, "runtime", EmptyDict)
        uptime == Get(runtime, "uptimeInSeconds", 0)
        gpu_type == Get(pod, "gpuTypeId", "N/A")
        cost == Get(pod, "costPerHr", 0)
        status == Get(pod, "desiredStatus", "N/A")
    IN  IF ~Has(pod, "id") THEN [ok |-> FALSE, err |-> "KeyError", text |-> <<>>]
        ELSE [ok |-> TRUE, err |-> "",
              text |-> [id |-> pod.id, name |-> Get(pod, "name", <<"N/A">>),
                        gpu |-> gpu_type, status |-> status,
                        uptime |-> format_uptime(uptime),
                        cost |-> <<cost \div 10000, cost % 10000>>]]

IsRunning(p) == Get(p, "desiredStatus", "") = "RUNNING"

\* the first instance of a list whose block cannot be formatted, 0 if none
RECURSIVE FirstUnformattable(_, _)
FirstUnformattable(pods, i) ==
    IF i > Len(pods) THEN 0
    ELSE IF ~format_pod_info(pods[i]).ok THEN i
    ELSE FirstUnformattable(pods, i + 1)

FormatAll(pods) == [i \in 1..Len(pods) |-> format_pod_info(pods[i]).text]

\* ------------------------------------------------------------------------
\* Text commands
\* ------------------------------------------------------------------------
\* a rejected command that is logged and gets no reply
DeniedCommand_silent(handler, u, c) ==
    Trace(handler, u, c, <<>>, AuthOf(u, c), 0, <<>>, <<>>, <<>>, "none")

\* the trace of a command that is_authorized rejected
DeniedCommand(handler, u, c) ==
    Trace(handler, u, c, <<>>, AuthOf(u, c), 0, <<Denied>>, <<>>, <<>>, "none")

\* the trace of an authorized command that sent reply after making calls
Replied(handler, u, c, reply, calls) ==
    Trace(handler, u, c, <<>>, AuthOf(u, c), 0, <<reply>>, calls, <<>>, "none")

GetPodsCall == Call("get_pods", <<>>)

start_command(u, c) ==
    /\ last' = IF ~is_authorized(u, c) THEN DeniedCommand("start_command", u, c)
               ELSE Replied("start_command", u, c, Msg("welcome", <<>>, <<>>), <<>>)
    /\ UNCHANGED <<config, loop, tray, user_data, unspent, progress>>

help_command(u, c) ==
    /\ last' = IF ~is_authorized(u, c) THEN DeniedCommand("help_command", u, c)
               ELSE Replied("help_command", u, c, Msg("help", <<>>, <<>>), <<>>)
    /\ UNCHANGED <<config, loop, tray, user_data, unspent, progress>>

\* the reply of /status to a provider answer
StatusReply(res) ==
    LET running_pods == SelectSeq(res.pods, IsRunning)
    IN  IF ~res.ok THEN GenericError
        ELSE IF running_pods = <<>> THEN Msg("no running pod", <<>>, <<>>)
        ELSE IF FirstUnformattable(running_pods, 1) # 0 THEN GenericError
        ELSE Msg("running pods", <<Len(running_pods), FormatAll(running_pods)>>, <<>>)

\* /status if a failed listing were tried a second time
status_command_retry(u, c) ==
    /\ IF ~is_authorized(u, c) THEN last' = DeniedCommand("status_command", u, c)
       ELSE \E res \in GetPodsResults, again \in GetPodsResults :
                last' = [Replied("status_command", u, c,
                                 StatusReply(IF res.ok THEN res ELSE again),
                                 IF res.ok THEN <<GetPodsCall>>
                                 ELSE <<GetPodsCall, GetPodsCall>>)
                         EXCEPT !.polled = <<res>>]
    /\ UNCHANGED <<config, loop, tray, user_data, unspent, progress>>

status_command(u, c) ==
    /\ IF ~is_authorized(u, c) THEN last' = DeniedCommand("status_command", u, c)
       ELSE \E res \in GetPodsResults :
                last' = [Replied("status_command", u, c, StatusReply(res), <<GetPodsCall>>)
                         EXCEPT !.polled = <<res>>]
    /\ UNCHANGED <<config, loop, tray, user_data, unspent, progress>>

\* the reply of /pods to a provider answer
PodsReply(res) ==
    IF ~res.ok THEN GenericError
    ELSE IF res.pods = <<>> THEN Msg("no pod registered", <<>>, <<>>)
    ELSE IF FirstUnformattable(res.pods, 1) # 0 THEN GenericError
    ELSE Msg("all pods", <<Len(res.pods), FormatAll(res.pods)>>, <<>>)

pods_command(u, c) ==
    /\ IF ~is_authorized(u, c) THEN last' = DeniedCommand("pods_command", u, c)
       ELSE \E res \in GetPodsResults :
                last' = [Replied("pods_command", u, c, PodsReply(res), <<GetPodsCall>>)
                         EXCEPT !.polled = <<res>>]
    /\ UNCHANGED <<config, loop, tray, user_data, unspent, progress>>

CancelButton == [label |-> <<"cancel">>, data |-> <<"cancel">>]

\* one button per instance; pod["id"] is evaluated for every instance, so an
\* instance without id raises KeyError
PodButtons(pods, prefix) ==
    [i \in 1..Len(pods) |->
        [label |-> <<Get(pods[i], "desiredStatus", ""),
                     Get(pods[i], "name", Take(pods[i].id, 8))>>,
         data |-> <<prefix>> \o pods[i].id]]

AllHaveId(pods) == \A i \in 1..Len(pods) : Has(pods[i], "id")

TerminateReply(res) ==
    IF ~res.ok THEN GenericError
    ELSE IF res.pods = <<>> THEN Msg("no pod registered", <<>>, <<>>)
    ELSE IF ~AllHaveId(res.pods) THEN GenericError
    ELSE Msg("choose the pod to terminate", <<>>,
             Append(PodButtons(res.pods, "terminate_"), CancelButton))

terminate_command(u, c) ==
    /\ IF ~is_authorized(u, c) THEN last' = DeniedCommand("terminate_command", u, c)
       ELSE \E res \in GetPodsResults :
                last' = [Replied("terminate_command", u, c, TerminateReply(res), <<GetPodsCall>>)
                         EXCEPT !.polled = <<res>>]
    /\ UNCHANGED <<config, loop, tray, user_data, unspent, progress>>

\* the /stop menu if it listed every instance whatever its status
StopReply_all(res) ==
    LET running_pods == res.pods
    IN  IF ~res.ok THEN GenericError
        ELSE IF running_pods = <<>> THEN Msg("no running pod", <<>>, <<>>)
        ELSE IF ~AllHaveId(running_pods) THEN GenericError
        ELSE Msg("choose the pod to stop", <<>>,
                 Append(PodButtons(running_pods, "stop_"), CancelButton))

StopReply(res) ==
    LET running_pods == SelectSeq(res.pods, IsRunning)
    IN  IF ~res.ok THEN GenericError
        ELSE IF running_pods = <<>> THEN Msg("no running pod", <<>>, <<>>)
        ELSE IF ~AllHaveId(running_pods) THEN GenericError
        ELSE Msg("choose the pod to stop", <<>>,
                 Append(PodButtons(running_pods, "stop_"), CancelButton))

stop_command(u, c) ==
    /\ IF ~is_authorized(u, c) THEN last' = DeniedCommand("stop_command", u, c)
       ELSE \E res \in GetPodsResults :
                last' = [Replied("stop_command", u, c, StopReply(res), <<GetPodsCall>>)
                         EXCEPT !.polled = <<res>>]
    /\ UNCHANGED <<config, loop, tray, user_data, unspent, progress>>

\* isinstance(data, list) ? data : []
fetch_templates(res) == IF res.kind = "list" THEN res.body ELSE <<>>

fetch_network_volumes(res) == IF res.kind = "list" THEN res.body ELSE <<>>

\* {r.get("id"): r for r in records}: a later record replaces an earlier one
\* with the same id
CacheOf(records) ==
    [k \in {records[i].id : i \in 1..Len(records)} |->
        records[CHOOSE i \in 1..Len(records) :
                    /\ records[i].id = k
                    /\ \A j \in (i + 1)..Len(records) : records[j].id # k]]

TemplateButtons(templates) ==
    [i \in 1..Len(templates) |->
        LET tpl_id == Get(templates[i], "id", <<>>)
        IN  [label |-> Get(templates[i], "name", Take(tpl_id, 8)),
             data |-> <<"crtpl_">> \o tpl_id]]

\* the reply if fetch_templates handed on a JSON value that is no list: the
\* loop over it raises and the except clause answers
CreateReply_unchecked(res) ==
    LET templates == fetch_templates(res)
    IN  IF res.kind \in {"raise", "other"} THEN Msg("failed to fetch the templates", <<>>, <<>>)
        ELSE IF templates = <<>> THEN Msg("no template registered", <<>>, <<>>)
        ELSE Msg("choose a template", <<>>,
                 Append(TemplateButtons(templates), CancelButton))

\* /create: step 1 of the wizard
CreateReply(res) ==
    LET templates == fetch_templates(res)
    IN  IF res.kind = "raise" THEN Msg("failed to fetch the templates", <<>>, <<>>)
        ELSE IF templates = <<>> THEN Msg("no template registered", <<>>, <<>>)
        ELSE Msg("choose a template", <<>>,
                 Append(TemplateButtons(templates), CancelButton))

\* /create if it added the template cache to the session it finds instead of
\* storing a new one
create_command_keep(u, c) ==
    IF ~is_authorized(u, c)
    THEN /\ last' = DeniedCommand("create_command", u, c)
         /\ UNCHANGED <<config, loop, tray, user_data, unspent, progress>>
    ELSE \E res \in TemplatesResults :
            LET templates == fetch_templates(res)
                opens == res.kind # "raise" /\ templates # <<>>
            IN  /\ opens => unspent[u] < MaxOpened
                /\ last' = [Replied("create_command", u, c, CreateReply(res),
                                    <<Call("fetch_templates", <<>>)>>)
                            EXCEPT !.polled = <<res>>]
                /\ user_data' =
                     IF opens
                     THEN [user_data EXCEPT ![u] =
                              Put(@, "create_pod",
                                  Put(Get(@, "create_pod", EmptyDict), "_templates",
                                      CacheOf(templates)))]
                     ELSE user_data
                /\ unspent' = IF opens THEN [unspent EXCEPT ![u] = @ + 1] ELSE unspent
                /\ progress' = IF opens THEN [progress EXCEPT ![u] = "AwaitingTemplate"]
                               ELSE progress
                /\ UNCHANGED <<config, loop, tray>>

create_command(u, c) ==
    IF ~is_authorized(u, c)
    THEN /\ last' = DeniedCommand("create_command", u, c)
         /\ UNCHANGED <<config, loop, tray, user_data, unspent, progress>>
    ELSE \E res \in TemplatesResults :
            LET templates == fetch_templates(res)
                opens == res.kind # "raise" /\ templates # <<>>
            IN  /\ opens => unspent[u] < MaxOpened
                /\ last' = [Replied("create_command", u, c, CreateReply(res),
                                    <<Call("fetch_templates", <<>>)>>)
                            EXCEPT !.polled = <<res>>]
                /\ user_data' =
                     IF opens
                     THEN [user_data EXCEPT ![u] =
                              Put(@, "create_pod", [_templates |-> CacheOf(templates)])]
                     ELSE user_data
                /\ unspent' = IF opens THEN [unspent EXCEPT ![u] = @ + 1] ELSE unspent
                /\ progress' = IF opens THEN [progress EXCEPT ![u] = "AwaitingTemplate"]
                               ELSE progress
                /\ UNCHANGED <<config, loop, tray>>

\* ------------------------------------------------------------------------
\* Progress of a wizard run: the step the steps taken so far lead to when they
\* came in the wizard's order, "OutOfOrder" once one of them did not
\* ------------------------------------------------------------------------
\* a template was chosen; skipped: no volume exists and the volume step is
\* settled with it
AfterTemplate(p, skipped) ==
    IF p # "AwaitingTemplate" THEN "OutOfOrder"
    ELSE IF skipped THEN "AwaitingGpu" ELSE "AwaitingVolume"

\* a volume choice was recorded
AfterVolume(p) ==
    IF p \in {"AwaitingVolume", "AwaitingGpu"} THEN "AwaitingGpu" ELSE "OutOfOrder"

\* a GPU choice was recorded
AfterGpu(p) ==
    IF p \in {"AwaitingGpu", "AwaitingConfirm"} THEN "AwaitingConfirm" ELSE "OutOfOrder"

\* ------------------------------------------------------------------------
\* Button presses
\* ------------------------------------------------------------------------
\* characters for which str.isalnum() is true: ASCII letters and digits, and
\* also the letters and digits of every other script
AsciiAlnum == {"a", "p", "0", "1", "2"}

UnicodeAlnum == {"U+00E9"}

isalnum(ch) == ch \in AsciiAlnum \cup UnicodeAlnum

\* instance ids carried by terminate_ and stop_ payloads
PodIdArgs ==
    {<<>>, <<"p", "-", "1">>, <<"p", ";", "1">>, <<"p", "U+00E9">>, <<"_">>}

\* the callback data an update can carry: buttons of any message the bot has
\* ever sent stay pressable, so a press is not tied to the current step
Payloads ==
    {<<"cancel">>, <<"crconfirm">>, <<"noop">>}
        \cup {<<"crtpl_">> \o id : id \in {<<"t", "1">>, <<"t", "2">>, <<"t", "3">>, <<"t", "9">>}}
        \cup {<<"crvol_">> \o id : id \in {<<"none">>, <<"v", "1">>, <<"v", "2">>, <<"v", "9">>}}
        \cup {<<"crgpu_">> \o ix : ix \in {<<"0">>, <<"2">>, <<"3">>, <<"-", "1">>, <<"x">>}}
        \cup {<<"terminate_">> \o id : id \in PodIdArgs}
        \cup {<<"stop_">> \o id : id \in PodIdArgs}

\* the branch of button_callback that handles data, in the order of its tests
Route(data) ==
    IF data = <<"cancel">> THEN "cancel"
    ELSE IF StartsWith(data, <<"crtpl_">>) THEN "crtpl_"
    ELSE IF StartsWith(data, <<"crvol_">>) THEN "crvol_"
    ELSE IF StartsWith(data, <<"crgpu_">>) THEN "crgpu_"
    ELSE IF data = <<"crconfirm">> THEN "crconfirm"
    ELSE IF StartsWith(data, <<"terminate_">>) THEN "terminate_"
    ELSE IF StartsWith(data, <<"stop_">>) THEN "stop_"
    ELSE "none"

\* the payloads each branch of button_callback handles
Routed ==
    [r \in {"cancel", "crtpl_", "crvol_", "crgpu_", "crconfirm", "terminate_", "stop_",
             "none"} |-> {data \in Payloads : Route(data) = r}]

\* the trace of an authorized press: query.answer() once, then the messages
Pressed(u, c, data, out, calls, raised) ==
    Trace("button_callback", u, c, data, AuthOf(u, c), 1, out, calls, <<>>, raised)

SessionExpired == Msg("session expired, restart with /create", <<>>, <<>>)

InvalidRequest == Msg("invalid request", <<>>, <<>>)

\* context.user_data.get("create_pod") is missing, None or an empty dict
NoState(u) == ~Has(user_data[u], "create_pod") \/ user_data[u].create_pod = EmptyDict

\* one wizard state kept for the whole process, not per user
SetState_shared(u, state) == [v \in Users |-> Put(user_data[v], "create_pod", state)]

\* context.user_data["create_pod"] = state: context.user_data is the sender's own
SetState(u, state) == [user_data EXCEPT ![u] = Put(@, "create_pod", state)]

GpuButtons ==
    [i \in 1..Len(PREFERRED_GPUS) |->
        [label |-> <<PREFERRED_GPUS[i]>>, data |-> <<"crgpu_">> \o IntStr(i - 1)]]

GpuMenu(template_name, vol_display) ==
    Msg("choose a GPU", <<template_name, vol_display>>, Append(GpuButtons, CancelButton))

\* the press is rejected before anything else is looked at
button_denied(u, c, data) ==
    /\ ~is_authorized(u, c)
    /\ last' = Trace("button_callback", u, c, data, AuthOf(u, c), 1, <<Denied>>, <<>>,
                   <<>>, "none")
    /\ UNCHANGED <<config, loop, tray, user_data, unspent, progress>>

\* button_cancel without the authorization test
button_cancel_unchecked(u, c, data) ==
    /\ Route(data) = "cancel"
    /\ user_data' = [user_data EXCEPT ![u] = Del(@, "create_pod")]
    /\ last' = Pressed(u, c, data, <<Msg("cancelled", <<>>, <<>>)>>, <<>>, "none")
    /\ progress' = [progress EXCEPT ![u] = "Idle"]
    /\ UNCHANGED <<config, loop, tray, unspent>>

\* button_cancel that discards only a session that has not chosen a template
button_cancel_early_only(u, c, data) ==
    /\ Route(data) = "cancel"
    /\ is_authorized(u, c)
    /\ user_data' = [user_data EXCEPT ![u] =
                        IF Has(Get(@, "create_pod", EmptyDict), "template_id") THEN @
                        ELSE Del(@, "create_pod")]
    /\ last' = Pressed(u, c, data, <<Msg("cancelled", <<>>, <<>>)>>, <<>>, "none")
    /\ progress' = [progress EXCEPT ![u] = "Idle"]
    /\ UNCHANGED <<config, loop, tray, unspent>>

button_cancel(u, c, data) ==
    /\ Route(data) = "cancel"
    /\ is_authorized(u, c)
    /\ user_data' = [user_data EXCEPT ![u] = Del(@, "create_pod")]
    /\ last' = Pressed(u, c, data, <<Msg("cancelled", <<>>, <<>>)>>, <<>>, "none")
    /\ progress' = [progress EXCEPT ![u] = "Idle"]
    /\ UNCHANGED <<config, loop, tray, unspent>>

\* no branch matches: the press is answered and nothing else happens
button_unrouted(u, c, data) ==
    /\ Route(data) = "none"
    /\ is_authorized(u, c)
    /\ last' = Pressed(u, c, data, <<>>, <<>>, "none")
    /\ UNCHANGED <<config, loop, tray, user_data, unspent, progress>>

\* the volume keyboard if the loop over the volumes ended after its first turn
VolumeButtons_first_only(volumes) ==
    [i \in 1..1 |->
        LET vol_id == Get(volumes[i], "id", <<>>)
        IN  [label |-> <<Get(volumes[i], "name", Take(vol_id, 8)),
                         Get(volumes[i], "size", 0),
                         Get(volumes[i], "dataCenterId", <<"?">>)>>,
             data |-> <<"crvol_">> \o vol_id]]

VolumeButtons(volumes) ==
    [i \in 1..Len(volumes) |->
        LET vol_id == Get(volumes[i], "id", <<>>)
        IN  [label |-> <<Get(volumes[i], "name", Take(vol_id, 8)),
                         Get(volumes[i], "size", 0),
                         Get(volumes[i], "dataCenterId", <<"?">>)>>,
             data |-> <<"crvol_">> \o vol_id]]

\* state.update({...}) with the fields of the chosen template, then
\* state.pop("_templates")
WithTemplate(state, template_id, tpl) ==
    LET s1 == Put(state, "template_id", template_id)
        s2 == Put(s1, "template_name", Get(tpl, "name", Take(template_id, 8)))
        s3 == Put(s2, "image_name", Get(tpl, "imageName", <<>>))
        s4 == Put(s3, "docker_args", Get(tpl, "dockerArgs", Str(<<>>)))
        s5 == Put(s4, "container_disk", Get(tpl, "containerDiskInGb", 50))
        s6 == Put(s5, "ports", Get(tpl, "ports", Str(<<"8888/http", ",", "22/tcp">>)))
    IN  Del(s6, "_templates")

\* crtpl_<id>: step 2, template chosen, volumes listed
button_crtpl(u, c, data) ==
    /\ Route(data) = "crtpl_"
    /\ is_authorized(u, c)
    /\ \E res \in VolumesResults :
            LET template_id == Drop(data, Len(<<"crtpl_">>))
                state == Get(user_data[u], "create_pod", EmptyDict)
                cached_templates == Get(state, "_templates", EmptyDict)
                found == Has(cached_templates, template_id)
                tpl == cached_templates[template_id]
                state1 == WithTemplate(state, template_id, tpl)
                volumes == fetch_network_volumes(res)
                tplName == Get(tpl, "name", Take(template_id, 8))
                fetchCall == Call("fetch_network_volumes", <<>>)
            IN  /\ IF ~found
                   THEN /\ last' = Pressed(u, c, data,
                                      <<Msg("template not found", <<>>, <<>>)>>, <<>>, "none")
                        /\ user_data' = user_data
                        /\ progress' = progress
                   ELSE IF res.kind = "raise"
                   THEN /\ last' = [Pressed(u, c, data, <<Msg("error, try again", <<>>, <<>>)>>,
                                            <<fetchCall>>, "none")
                                    EXCEPT !.polled = <<res>>]
                        /\ user_data' = SetState(u, state1)
                        /\ progress' = [progress EXCEPT ![u] = AfterTemplate(@, FALSE)]
                   ELSE IF volumes # <<>>
                   THEN /\ last' = [Pressed(u, c, data,
                                            <<Msg("choose a volume", <<tplName>>,
                                                  VolumeButtons(volumes)
                                                    \o <<[label |-> <<"no volume">>,
                                                          data |-> <<"crvol_", "none">>],
                                                         CancelButton>>)>>,
                                            <<fetchCall>>, "none")
                                    EXCEPT !.polled = <<res>>]
                        /\ user_data' = SetState(u, Put(state1, "_volumes", CacheOf(volumes)))
                        /\ progress' = [progress EXCEPT ![u] = AfterTemplate(@, FALSE)]
                   ELSE /\ last' = [Pressed(u, c, data, <<GpuMenu(tplName, <<"none">>)>>,
                                            <<fetchCall>>, "none")
                                    EXCEPT !.polled = <<res>>]
                        /\ user_data' = SetState(u, Put(state1, "volume_id", None))
                        /\ progress' = [progress EXCEPT ![u] = AfterTemplate(@, TRUE)]
                /\ UNCHANGED <<config, loop, tray, unspent>>

\* the session after the volume part of a crvol_ press has been recorded
WithVolume(state, vol_part) ==
    LET cached_volumes == Get(state, "_volumes", EmptyDict)
        known == Has(cached_volumes, vol_part)
        s1 == IF vol_part = <<"none">> THEN Put(state, "volume_id", None)
              ELSE Put(state, "volume_id", Str(vol_part))
        s2 == IF vol_part # <<"none">> /\ known
                 /\ Get(cached_volumes[vol_part], "dataCenterId", <<>>) # <<>>
              THEN Put(s1, "data_center_id", cached_volumes[vol_part].dataCenterId)
              ELSE s1
    IN  Del(s2, "_volumes")

VolDisplay(state, vol_part) ==
    LET cached_volumes == Get(state, "_volumes", EmptyDict)
    IN  IF vol_part = <<"none">> THEN <<"none">>
        ELSE IF Has(cached_volumes, vol_part)
        THEN Get(cached_volumes[vol_part], "name", Take(vol_part, 8))
        ELSE Take(vol_part, 8)

\* crvol_<id>: step 3, volume chosen, GPU menu shown
button_crvol(u, c, data) ==
    LET vol_part == Drop(data, Len(<<"crvol_">>))
        state == user_data[u].create_pod
        state1 == WithVolume(state, vol_part)
    IN  /\ Route(data) = "crvol_"
        /\ is_authorized(u, c)
        /\ IF NoState(u)
           THEN /\ last' = Pressed(u, c, data, <<SessionExpired>>, <<>>, "none")
                /\ user_data' = user_data
                /\ progress' = progress
           ELSE IF ~Has(state1, "template_name")
           THEN /\ last' = Pressed(u, c, data, <<>>, <<>>, "KeyError")
                /\ user_data' = SetState(u, state1)
                /\ progress' = [progress EXCEPT ![u] = AfterVolume(@)]
           ELSE /\ last' = Pressed(u, c, data,
                              <<GpuMenu(state1.template_name, VolDisplay(state, vol_part))>>,
                              <<>>, "none")
                /\ user_data' = SetState(u, state1)
                /\ progress' = [progress EXCEPT ![u] = AfterVolume(@)]
        /\ UNCHANGED <<config, loop, tray, unspent>>

\* the index test of crgpu_ without its lower bound
ValidGpuIndex_no_lower(parsed) ==
    parsed.ok /\ ~(parsed.val >= Len(PREFERRED_GPUS))

\* int() succeeded and the index is within PREFERRED_GPUS
ValidGpuIndex(parsed) ==
    parsed.ok /\ ~(parsed.val < 0 \/ parsed.val >= Len(PREFERRED_GPUS))

generate_pod_name(template_name, ts) ==
    LET safe_name == Replace(Take(template_name, 20), " ", "-")
    IN  safe_name \o <<"-">> \o ts

\* crgpu_<i>: step 4, GPU chosen, summary shown
button_crgpu(u, c, data) ==
    \E ts \in Timestamps :
        LET state == user_data[u].create_pod
            parsed == ParseInt(Drop(data, Len(<<"crgpu_">>)))
            gpu_index == parsed.val
            state1 == Put(state, "gpu_type", Index(PREFERRED_GPUS, gpu_index))
            pod_name == generate_pod_name(state1.template_name, ts)
            state2 == Put(state1, "pod_name", pod_name)
            volume_id == Get(state2, "volume_id", None)
            vol_display == IF Truthy(volume_id) THEN Take(volume_id.v, 12) \o <<"...">>
                           ELSE <<"none">>
            summary == Msg("confirm the creation",
                           [name |-> pod_name, template |-> state2.template_name,
                            gpu |-> state2.gpu_type, volume |-> vol_display,
                            disk |-> Get(state2, "container_disk", 50),
                            ports |-> Get(state2, "ports",
                                          Str(<<"8888/http", ",", "22/tcp">>))],
                           <<[label |-> <<"create">>, data |-> <<"crconfirm">>],
                             CancelButton>>)
        IN  /\ Route(data) = "crgpu_"
            /\ is_authorized(u, c)
            /\ IF NoState(u)
               THEN /\ last' = Pressed(u, c, data, <<SessionExpired>>, <<>>, "none")
                    /\ user_data' = user_data
                    /\ progress' = progress
               ELSE IF ~ValidGpuIndex(parsed)
               THEN /\ last' = Pressed(u, c, data,
                                  <<Msg("invalid GPU choice", <<>>, <<>>)>>, <<>>, "none")
                    /\ user_data' = user_data
                    /\ progress' = progress
               ELSE IF ~Has(state1, "template_name")
               THEN /\ last' = Pressed(u, c, data, <<>>, <<>>, "KeyError")
                    /\ user_data' = SetState(u, state1)
                    /\ progress' = [progress EXCEPT ![u] = AfterGpu(@)]
               ELSE /\ last' = Pressed(u, c, data, <<summary>>, <<>>, "none")
                    /\ user_data' = SetState(u, state2)
                    /\ progress' = [progress EXCEPT ![u] = AfterGpu(@)]
            /\ UNCHANGED <<config, loop, tray, unspent>>

\* the ports if a str were only split on commas
PortsList_untrimmed(ports_raw) ==
    IF ports_raw.t = "str" THEN List(Split(ports_raw.v, ",")) ELSE ports_raw

\* ports as the API wants them: a str is split on commas, trimmed, and its
\* empty tokens dropped; anything else is passed on as it is
PortsList(ports_raw) ==
    IF ports_raw.t = "str"
    THEN LET toks == SelectSeq(Split(ports_raw.v, ","), NonBlank)
         IN  List([i \in 1..Len(toks) |-> Strip(toks[i])])
    ELSE ports_raw

\* the config dict of the creation request; every state[...] subscript of the
\* handler needs its key
ConfigKeys == {"pod_name", "gpu_type", "template_id"}

\* the config if the volume branch kept the default disk allocation
BuildConfig_default_disk(state) ==
    LET base == [name |-> state.pod_name,
                 imageName |-> Get(state, "image_name", <<>>),
                 gpuTypeIds |-> <<state.gpu_type>>,
                 gpuCount |-> 1,
                 containerDiskInGb |-> Get(state, "container_disk", 50),
                 ports |-> PortsList(Get(state, "ports",
                                         Str(<<"8888/http", ",", "22/tcp">>))),
                 templateId |-> state.template_id]
        docker_args == Get(state, "docker_args", None)
        c1 == IF Truthy(docker_args)
              THEN (IF docker_args.t = "str"
                    THEN Put(base, "dockerStartCmd", SplitWS(docker_args.v))
                    ELSE IF docker_args.t = "list"
                    THEN Put(base, "dockerStartCmd", docker_args.v)
                    ELSE base)
              ELSE base
        volume_id == Get(state, "volume_id", None)
        data_center_id == Get(state, "data_center_id", <<>>)
    IN  IF Truthy(volume_id)
        THEN LET c2 == Put(Put(c1, "networkVolumeId", volume_id.v), "volumeInGb", 20)
             IN  IF data_center_id # <<>>
                 THEN Put(c2, "dataCenterIds", <<data_center_id>>)
                 ELSE c2
        ELSE Put(c1, "volumeInGb", 20)

BuildConfig(state) ==
    LET base == [name |-> state.pod_name,
                 imageName |-> Get(state, "image_name", <<>>),
                 gpuTypeIds |-> <<state.gpu_type>>,
                 gpuCount |-> 1,
                 containerDiskInGb |-> Get(state, "container_disk", 50),
                 ports |-> PortsList(Get(state, "ports",
                                         Str(<<"8888/http", ",", "22/tcp">>))),
                 templateId |-> state.template_id]
        docker_args == Get(state, "docker_args", None)
        c1 == IF Truthy(docker_args)
              THEN (IF docker_args.t = "str"
                    THEN Put(base, "dockerStartCmd", SplitWS(docker_args.v))
                    ELSE IF docker_args.t = "list"
                    THEN Put(base, "dockerStartCmd", docker_args.v)
                    ELSE base)
              ELSE base
        volume_id == Get(state, "volume_id", None)
        data_center_id == Get(state, "data_center_id", <<>>)
    IN  IF Truthy(volume_id)
        THEN LET c2 == Put(Put(c1, "networkVolumeId", volume_id.v), "volumeInGb", 0)
             IN  IF data_center_id # <<>>
                 THEN Put(c2, "dataCenterIds", <<data_center_id>>)
                 ELSE c2
        ELSE Put(c1, "volumeInGb", 20)

\* the failure detail shown after an HTTP error status
ErrorDetail(res) ==
    LET error_detail == Take(res.text, 200)
        err_field == Get(res.body, "error", Str(<<>>))
    IN  IF ~res.json THEN error_detail
        ELSE IF err_field.t = "dict" THEN Get(err_field.v, "message", error_detail)
        ELSE IF err_field.t = "str" /\ err_field.v # <<>> THEN err_field.v
        ELSE error_detail

\* the message that ends a confirm, after the provider answered res
CreateOutcome(state, res) ==
    IF res.kind = "ok"
    THEN Msg("pod created", <<Get(res.body, "id", <<"N/A">>), state.pod_name,
                              state.gpu_type>>, <<>>)
    ELSE IF res.kind = "http"
    THEN Msg("pod creation failed", <<ErrorDetail(res)>>, <<>>)
    ELSE Msg("pod creation failed, try again later", <<>>, <<>>)

\* context.user_data.get("create_pod") in place of the pop
PopState_get(ud) == ud

\* context.user_data.pop("create_pod", None): what is left in user_data
PopState(ud) == Del(ud, "create_pod")

\* crconfirm: step 5, the session is popped and the request is sent
button_crconfirm(u, c, data) ==
    /\ Route(data) = "crconfirm"
    /\ is_authorized(u, c)
    /\ \E res \in CreateResults :
            LET state == user_data[u].create_pod
                progressMsg == Msg("creating the pod", <<state.gpu_type>>, <<>>)
                cfg == BuildConfig(state)
            IN  /\ user_data' = [user_data EXCEPT ![u] = PopState(@)]
                /\ IF NoState(u)
                   THEN /\ last' = Pressed(u, c, data, <<SessionExpired>>, <<>>, "none")
                        /\ UNCHANGED <<unspent, progress>>
                   ELSE IF ~Has(state, "gpu_type")
                   THEN /\ last' = Pressed(u, c, data, <<>>, <<>>, "KeyError")
                        /\ progress' = [progress EXCEPT ![u] = "Idle"]
                        /\ unspent' = unspent
                   ELSE IF ~(ConfigKeys \subseteq DOMAIN state)
                   THEN /\ last' = Pressed(u, c, data, <<progressMsg>>, <<>>, "KeyError")
                        /\ progress' = [progress EXCEPT ![u] = "Idle"]
                        /\ unspent' = unspent
                   ELSE /\ last' = [Pressed(u, c, data,
                                       <<progressMsg, CreateOutcome(state, res)>>,
                                       <<Call("create_pod_api", cfg)>>, "none")
                                    EXCEPT !.polled = <<res>>]
                        /\ progress' = [progress EXCEPT ![u] = "Submitted"]
                        /\ unspent' = [unspent EXCEPT ![u] = @ - 1]
                /\ UNCHANGED <<config, loop, tray>>

\* pod_id is non-empty and made of alphanumeric characters and hyphens
ValidPodId(pod_id) ==
    pod_id # <<>> /\ \A i \in 1..Len(pod_id) : isalnum(pod_id[i]) \/ pod_id[i] = "-"

\* terminate_<id> and stop_<id>: validate the id, call the provider, report
PodAction(u, c, data, prefix, op, result) ==
    LET pod_id == Drop(data, Len(<<prefix>>))
    IN  /\ Route(data) = prefix
        /\ is_authorized(u, c)
        /\ last' =
             IF ~ValidPodId(pod_id)
             THEN Pressed(u, c, data, <<InvalidRequest>>, <<>>, "none")
             ELSE [Pressed(u, c, data,
                           <<Msg("in progress", <<op, pod_id>>, <<>>),
                             IF result = "ok" THEN Msg("done", <<op, pod_id>>, <<>>)
                             ELSE Msg("failed, try again later", <<op>>, <<>>)>>,
                           <<Call(op, pod_id)>>, "none")
                   EXCEPT !.polled = <<result>>, !.order = <<"out", "call", "out">>]
        /\ UNCHANGED <<config, loop, tray, user_data, unspent, progress>>

button_terminate(u, c, data) ==
    \E result \in CallResults : PodAction(u, c, data, "terminate_", "terminate_pod", result)

\* the stop_ branch calling the operation of the terminate_ branch
button_stop_terminates(u, c, data) ==
    \E result \in CallResults : PodAction(u, c, data, "stop_", "terminate_pod", result)

button_stop(u, c, data) ==
    \E result \in CallResults : PodAction(u, c, data, "stop_", "stop_pod", result)

\* ------------------------------------------------------------------------
\* Polling
\* ------------------------------------------------------------------------
\* send_alert: one send_message to TELEGRAM_CHAT_ID; a failure is logged and
\* not raised
send_alert(message, result) ==
    [chat_id |-> TELEGRAM_CHAT_ID, text |-> message, parse_mode |-> "Markdown",
     result |-> result]

RECURSIVE RunningCost(_)
RunningCost(pods) ==
    IF pods = <<>> THEN 0
    ELSE (IF IsRunning(Head(pods)) THEN Get(Head(pods), "costPerHr", 0) ELSE 0)
            + RunningCost(Tail(pods))

\* the report if every instance were taken as running
Report_all_running(pods) ==
    LET running_pods == pods
        total_cost == RunningCost(pods)
    IN  [kind |-> "report", count |-> Len(pods), running |-> Len(running_pods),
         blocks |-> FormatAll(pods),
         cost |-> IF running_pods # <<>>
                  THEN <<total_cost \div 10000, total_cost % 10000>>
                  ELSE <<>>]

\* the report of a non-empty instance list
Report(pods) ==
    LET running_pods == SelectSeq(pods, IsRunning)
        total_cost == RunningCost(pods)
    IN  [kind |-> "report", count |-> Len(pods), running |-> Len(running_pods),
         blocks |-> FormatAll(pods),
         cost |-> IF running_pods # <<>>
                  THEN <<total_cost \div 10000, total_cost % 10000>>
                  ELSE <<>>]

\* the error notification without the failure detail
ErrorAlert_generic(detail) == [kind |-> "error", detail |-> "check failed"]

ErrorAlert(detail) == [kind |-> "error", detail |-> detail]

\* the sends of a tick if send_alert let a failed send escape: the except
\* clause of check_pods would then send the error notification as well
PollAlerts_resend(res, result) ==
    IF ~res.ok THEN <<send_alert(ErrorAlert(res.err), result)>>
    ELSE IF res.pods = <<>> THEN <<>>
    ELSE IF FirstUnformattable(res.pods, 1) # 0
    THEN <<send_alert(ErrorAlert("'id'"), result)>>
    ELSE IF result = "raise"
    THEN <<send_alert(Report(res.pods), result), send_alert(ErrorAlert("send"), result)>>
    ELSE <<send_alert(Report(res.pods), result)>>

\* the sends one tick attempts, given the provider's answer and the outcome
\* of send_message
PollAlerts(res, result) ==
    IF ~res.ok THEN <<send_alert(ErrorAlert(res.err), result)>>
    ELSE IF res.pods = <<>> THEN <<>>
    ELSE IF FirstUnformattable(res.pods, 1) # 0
    THEN <<send_alert(ErrorAlert("'id'"), result)>>
    ELSE <<send_alert(Report(res.pods), result)>>

\* one tick of scheduled_check
check_pods ==
    \E res \in GetPodsResults, result \in CallResults :
        /\ last' = [Trace("check_pods", 0, 0, <<>>, "none", 0, <<>>,
                          <<GetPodsCall>>, PollAlerts(res, result), "none")
                    EXCEPT !.polled = <<res>>]
        /\ UNCHANGED <<config, loop, tray, user_data, unspent, progress>>

\* ------------------------------------------------------------------------
\* Specification
\* ------------------------------------------------------------------------
\* Handlers that read the provider and never touch a session, and the poll
\* tick, under every configuration
Next ==
    \/ \E u \in Users, c \in Chats : start_command(u, c)
    \/ \E u \in Users, c \in Chats : help_command(u, c)
    \/ \E u \in Users, c \in Chats : status_command(u, c)
    \/ \E u \in Users, c \in Chats : pods_command(u, c)
    \/ \E u \in Users, c \in Chats : terminate_command(u, c)
    \/ \E u \in Users, c \in Chats : stop_command(u, c)
    \/ \E u \in Users, c \in Chats, data \in Payloads : button_denied(u, c, data)
    \/ \E u \in Users, c \in Chats, data \in Routed["terminate_"] :
            button_terminate(u, c, data)
    \/ \E u \in Users, c \in Chats, data \in Routed["stop_"] : button_stop(u, c, data)
    \/ \E u \in Users, c \in Chats, data \in Routed["none"] : button_unrouted(u, c, data)
    \/ check_pods

Spec == Init /\ [][Next]_vars

\* generate_pod_name applied to a template name
generate_pod_name_call ==
    \E template_name \in TemplateNames, ts \in Timestamps :
        /\ last' = Trace("generate_pod_name", 0, 0, template_name, "none", 0,
                         <<Msg("pod name", <<generate_pod_name(template_name, ts), ts>>,
                               <<>>)>>,
                         <<>>, <<>>, "none")
        /\ UNCHANGED <<config, loop, tray, user_data, unspent, progress>>

NextNames == generate_pod_name_call

SpecNames == Init /\ [][NextNames]_vars

\* The wizard of one user, in a deployment restricted to chat 1 and user 1:
\* the user's updates arrive from the configured chat or from another one
InitWizard ==
    /\ Init
    /\ TELEGRAM_CHAT_ID = <<"1">>
    /\ ALLOWED_USER_IDS = <<" ", "1", " ", ",", ",">>

WizardUsers == {1}

\* a text command other than /create, sent from a chat that is not allowed
RejectedCommand(u, c) ==
    /\ ~is_authorized(u, c)
    /\ \/ start_command(u, c)
       \/ help_command(u, c)
       \/ status_command(u, c)
       \/ pods_command(u, c)
       \/ terminate_command(u, c)
       \/ stop_command(u, c)

NextWizard ==
    \/ \E u \in WizardUsers, c \in Chats : create_command(u, c)
    \/ \E u \in WizardUsers, c \in Chats : RejectedCommand(u, c)
    \/ \E u \in WizardUsers, c \in Chats, data \in Payloads : button_denied(u, c, data)
    \/ \E u \in WizardUsers, c \in Chats, data \in Routed["cancel"] :
            button_cancel(u, c, data)
    \/ \E u \in WizardUsers, c \in Chats, data \in Routed["crtpl_"] :
            button_crtpl(u, c, data)
    \/ \E u \in WizardUsers, c \in Chats, data \in Routed["crvol_"] :
            button_crvol(u, c, data)
    \/ \E u \in WizardUsers, c \in Chats, data \in Routed["crgpu_"] :
            button_crgpu(u, c, data)
    \/ \E u \in WizardUsers, c \in Chats, data \in Routed["crconfirm"] :
            button_crconfirm(u, c, data)

SpecWizard == InitWizard /\ [][NextWizard]_vars

\* Every handler that calls the provider, and the poll tick, for the allowed
\* user in the configured chat; the wizard is walked along one short run
\* (template t2, first GPU, confirm) and its other presses
ProviderChats == {1}

ProviderPresses ==
    {<<"crtpl_", "t", "2">>, <<"crtpl_", "t", "9">>, <<"crgpu_", "0">>, <<"crconfirm">>}

NextProvider ==
    \/ \E u \in WizardUsers, c \in ProviderChats : status_command(u, c)
    \/ \E u \in WizardUsers, c \in ProviderChats : pods_command(u, c)
    \/ \E u \in WizardUsers, c \in ProviderChats : terminate_command(u, c)
    \/ \E u \in WizardUsers, c \in ProviderChats : stop_command(u, c)
    \/ \E u \in WizardUsers, c \in ProviderChats : create_command(u, c)
    \/ \E u \in WizardUsers, c \in ProviderChats,
            data \in Routed["crtpl_"] \cap ProviderPresses : button_crtpl(u, c, data)
    \/ \E u \in WizardUsers, c \in ProviderChats,
            data \in Routed["crgpu_"] \cap ProviderPresses : button_crgpu(u, c, data)
    \/ \E u \in WizardUsers, c \in ProviderChats,
            data \in Routed["crconfirm"] \cap ProviderPresses : button_crconfirm(u, c, data)
    \/ \E u \in WizardUsers, c \in ProviderChats, data \in Routed["terminate_"] :
            button_terminate(u, c, data)
    \/ \E u \in WizardUsers, c \in ProviderChats, data \in Routed["stop_"] :
            button_stop(u, c, data)
    \/ check_pods

SpecProvider == InitWizard /\ [][NextProvider]_vars

\* Two users in the configured chat, no user allow-list: each walks the wizard
\* with presses of their own (user 1: template t1, volume v1, third GPU;
\* user 2: template t2, first GPU, cancel), one run at a time per user, while
\* the poll tick finds at most one instance
InitShared ==
    /\ Init
    /\ TELEGRAM_CHAT_ID = <<"1">>
    /\ ALLOWED_USER_IDS = <<>>

PressesOf ==
    [u \in Users |->
        IF u = 1
        THEN {<<"crtpl_", "t", "1">>, <<"crvol_", "v", "1">>, <<"crgpu_", "2">>, <<"crconfirm">>}
        ELSE {<<"crtpl_", "t", "2">>, <<"crgpu_", "0">>, <<"crconfirm">>, <<"cancel">>}]

NextShared ==
    \/ \E u \in Users, c \in ProviderChats :
            unspent[u] = 0 /\ create_command(u, c)
    \/ \E u \in Users : \E c \in ProviderChats, data \in Routed["cancel"] \cap PressesOf[u] :
            button_cancel(u, c, data)
    \/ \E u \in Users : \E c \in ProviderChats, data \in Routed["crtpl_"] \cap PressesOf[u] :
            button_crtpl(u, c, data)
    \/ \E u \in Users : \E c \in ProviderChats, data \in Routed["crvol_"] \cap PressesOf[u] :
            button_crvol(u, c, data)
    \/ \E u \in Users : \E c \in ProviderChats, data \in Routed["crgpu_"] \cap PressesOf[u] :
            button_crgpu(u, c, data)
    \/ \E u \in Users : \E c \in ProviderChats, data \in Routed["crconfirm"] \cap PressesOf[u] :
            button_crconfirm(u, c, data)
    \/ (check_pods /\ Len(last'.polled[1].pods) <= 1)

SpecShared == InitShared /\ [][NextShared]_vars

\* The seven text commands, from every sender and chat under every
\* configuration; a sender opens one session
NextCommands ==
    \/ \E u \in Users, c \in Chats : start_command(u, c)
    \/ \E u \in Users, c \in Chats : help_command(u, c)
    \/ \E u \in Users, c \in Chats : status_command(u, c)
    \/ \E u \in Users, c \in Chats : pods_command(u, c)
    \/ \E u \in Users, c \in Chats : unspent[u] = 0 /\ create_command(u, c)
    \/ \E u \in Users, c \in Chats : terminate_command(u, c)
    \/ \E u \in Users, c \in Chats : stop_command(u, c)

SpecCommands == Init /\ [][NextCommands]_vars

\* ------------------------------------------------------------------------
\* The process: main, the poller task and the update in progress, step by
\* step on the one event loop
\* ------------------------------------------------------------------------
\* the three tests at the top of main without the one of TELEGRAM_CHAT_ID
ConfigComplete_no_chat(key, token, chat_id) == key # <<>> /\ token # <<>>

\* none of "if not RUNPOD_API_KEY", "if not TELEGRAM_BOT_TOKEN" and
\* "if not TELEGRAM_CHAT_ID" raises
ConfigComplete(key, token, chat_id) == key # <<>> /\ token # <<>> /\ chat_id # <<>>

\* the functions main registers with add_handler
HandlerNames ==
    {"start_command", "help_command", "status_command", "pods_command",
     "create_command", "terminate_command", "stop_command", "button_callback"}

\* the function an update is dispatched to: the seven commands, and presses of
\* cancel, crtpl_, crconfirm, terminate_ and stop_
UpdateHandler ==
    [start |-> "start_command", help |-> "help_command", status |-> "status_command",
     pods |-> "pods_command", create |-> "create_command",
     terminate |-> "terminate_command", stop |-> "stop_command",
     cancel |-> "button_callback", crtpl_ |-> "button_callback",
     crconfirm |-> "button_callback", terminate_ |-> "button_callback",
     stop_ |-> "button_callback"]

Updates == DOMAIN UpdateHandler

\* how the handler of an update waits for the provider: runpod.get_pods(),
\* runpod.terminate_pod() and runpod.stop_pod() are called without await and
\* return only when the provider has answered ("blocking"); fetch_templates,
\* fetch_network_volumes and create_pod_api are awaited ("awaited")
ProviderWait(upd) ==
    IF upd \in {"status", "pods", "terminate", "stop", "terminate_", "stop_"}
    THEN "blocking"
    ELSE IF upd \in {"create", "crtpl_", "crconfirm"} THEN "awaited"
    ELSE "none"

\* send_alert with a bare try: a failed send_message leaves the function
send_alert_outcome_reraise(result) == IF result = "raise" THEN "raised" ELSE "sent"

\* send_alert as its caller sees it: except Exception logs a failed send
send_alert_outcome(result) == IF result = "raise" THEN "logged" ELSE "sent"

\* main going on to build the application whatever the configuration is
main_validate_unchecked ==
    /\ loop.main = "start"
    /\ loop' = [loop EXCEPT !.main = "validated"]
    /\ UNCHANGED <<config, tray, user_data, unspent, progress, last>>

\* main, lines 724-729: the configuration tests
main_validate ==
    /\ loop.main = "start"
    /\ loop' = [loop EXCEPT !.main =
                  IF ConfigComplete(RUNPOD_API_KEY, TELEGRAM_BOT_TOKEN, TELEGRAM_CHAT_ID)
                  THEN "validated" ELSE "failed"]
    /\ UNCHANGED <<config, tray, user_data, unspent, progress, last>>

\* main, lines 735-745: the application is built and the handlers are added
main_register ==
    /\ loop.main = "validated"
    /\ loop' = [loop EXCEPT !.main = "registered", !.handlers = HandlerNames]
    /\ UNCHANGED <<config, tray, user_data, unspent, progress, last>>

\* post_init, first statement: the startup notification
post_init_alert ==
    \E result \in CallResults :
        LET outcome == send_alert_outcome(result)
        IN  /\ loop.main = "registered"
            /\ loop' = [loop EXCEPT !.startup = outcome,
                                    !.main = IF outcome = "raised" THEN "failed"
                                             ELSE "notified"]
            /\ UNCHANGED <<config, tray, user_data, unspent, progress, last>>

\* post_init, second statement: create_task(scheduled_check); updates are
\* taken from here on
post_init_start ==
    /\ loop.main = "notified"
    /\ loop' = [loop EXCEPT !.main = "running", !.poller = "due"]
    /\ UNCHANGED <<config, tray, user_data, unspent, progress, last>>

\* scheduled_check enters check_pods and calls runpod.get_pods(): the call
\* is synchronous, the thread of the event loop stays inside it
tick_start ==
    /\ loop.poller = "due"
    /\ loop.thread = "free"
    /\ loop' = [loop EXCEPT !.poller = "listing", !.thread = "poller"]
    /\ UNCHANGED <<config, tray, user_data, unspent, progress, last>>

\* get_pods returned or raised: the tick has something to send, or it has
\* not and goes to sleep
tick_listed ==
    \E res \in GetPodsResults :
        LET quiet == PollAlerts(res, "ok") = <<>>
        IN  /\ loop.poller = "listing"
            /\ loop' = [loop EXCEPT !.thread = "free",
                                    !.poller = IF quiet THEN "sleeping" ELSE "sending",
                                    !.tick = IF quiet THEN "quiet" ELSE @]
            /\ UNCHANGED <<config, tray, user_data, unspent, progress, last>>

\* await send_alert returned; an exception leaving it would leave check_pods
\* and end scheduled_check
tick_sent ==
    \E result \in CallResults :
        LET outcome == send_alert_outcome(result)
        IN  /\ loop.poller = "sending"
            /\ loop.thread = "free"
            /\ loop' = [loop EXCEPT !.tick = outcome,
                                    !.poller = IF outcome = "raised" THEN "dead"
                                               ELSE "sleeping"]
            /\ UNCHANGED <<config, tray, user_data, unspent, progress, last>>

\* asyncio.sleep(CHECK_INTERVAL_MINUTES * 60) is over
sleep_elapsed ==
    /\ loop.poller = "sleeping"
    /\ loop' = [loop EXCEPT !.poller = "due"]
    /\ UNCHANGED <<config, tray, user_data, unspent, progress, last>>

\* the application takes the next update (one at a time) and runs its handler
\* up to the provider call, or up to the reply if it makes none
dispatch(upd) ==
    LET wait == ProviderWait(upd)
    IN  /\ loop.main = "running"
        /\ UpdateHandler[upd] \in loop.handlers
        /\ loop.update = "none"
        /\ loop.thread = "free"
        /\ loop' = [loop EXCEPT !.update = upd,
                                !.waiting = IF wait = "none" THEN "reply" ELSE wait,
                                !.thread = IF wait = "blocking" THEN "update" ELSE @]
        /\ UNCHANGED <<config, tray, user_data, unspent, progress, last>>

\* the provider answered the handler's call, or the call failed
provider_answered ==
    /\ loop.waiting \in {"blocking", "awaited"}
    /\ loop.waiting = "awaited" => loop.thread = "free"
    /\ loop' = [loop EXCEPT !.waiting = "reply",
                            !.thread = IF loop.waiting = "blocking" THEN "free" ELSE @]
    /\ UNCHANGED <<config, tray, user_data, unspent, progress, last>>

\* the handler's last message went out and the handler returned
handler_replied ==
    /\ loop.waiting = "reply"
    /\ loop.thread = "free"
    /\ loop' = [loop EXCEPT !.update = "none", !.waiting = "none",
                            !.served = loop.update]
    /\ UNCHANGED <<config, tray, user_data, unspent, progress, last>>

\* the process is started under every setting of the three required variables
InitProcess ==
    /\ tray = [process |-> 0, running |-> FALSE, ran |-> FALSE, alive |-> {}, launched |-> 0,
               requests |-> 0, stopped |-> {}, notified |-> {}, threads |-> EmptyBag]
    /\ RUNPOD_API_KEY \in ApiKeySettings
    /\ TELEGRAM_BOT_TOKEN \in BotTokenSettings
    /\ TELEGRAM_CHAT_ID \in ChatIdSettings
    /\ ALLOWED_USER_IDS \in UserIdSettings
    /\ loop = Loaded
    /\ user_data = [u \in Users |-> EmptyDict]
    /\ unspent = [u \in Users |-> 0]
    /\ progress = [u \in Users |-> "Idle"]
    /\ last = Trace("init", 0, 0, <<>>, "none", 0, <<>>, <<>>, <<>>, "none")

NextProcess ==
    \/ main_validate
    \/ main_register
    \/ post_init_alert
    \/ post_init_start
    \/ tick_start
    \/ tick_listed
    \/ tick_sent
    \/ sleep_elapsed
    \/ \E upd \in Updates : dispatch(upd)
    \/ provider_answered
    \/ handler_replied

SpecProcess == InitProcess /\ [][NextProcess]_vars

\* the event loop runs every task that is ready after finitely many others
\* (tick_start, tick_sent), a call to the provider or to Telegram ends with an
\* answer or with a timeout, and a sleep ends
SpecProcessFair ==
    /\ SpecProcess
    /\ SF_vars(tick_start)
    /\ WF_vars(tick_listed)
    /\ SF_vars(tick_sent)
    /\ WF_vars(sleep_elapsed)
    /\ WF_vars(provider_answered)

\* The bot as main starts it: the handlers take updates once main has
\* registered them and run_polling has begun, and the poll tick runs once
\* post_init has created its task. Commands and presses come from both users
\* and both chats; a user opens one session, the presses are a cancel, a
\* confirm, a terminate and a stop, and the provider lists at most one
\* instance.
StartedPresses ==
    {<<"cancel">>, <<"crconfirm">>, <<"terminate_", "p", "-", "1">>,
     <<"stop_", "p", "-", "1">>}

NextStarted ==
    \/ main_validate
    \/ main_register
    \/ post_init_alert
    \/ post_init_start
    \/ \E u \in Users, c \in Chats :
            /\ loop.main = "running" /\ "start_command" \in loop.handlers
            /\ start_command(u, c)
    \/ \E u \in Users, c \in Chats :
            /\ loop.main = "running" /\ "help_command" \in loop.handlers
            /\ help_command(u, c)
    \/ \E u \in Users, c \in Chats :
            /\ loop.main = "running" /\ "status_command" \in loop.handlers
            /\ status_command(u, c)
            /\ last'.polled # <<>> => Len(last'.polled[1].pods) <= 1
    \/ \E u \in Users, c \in Chats :
            /\ loop.main = "running" /\ "pods_command" \in loop.handlers
            /\ pods_command(u, c)
            /\ last'.polled # <<>> => Len(last'.polled[1].pods) <= 1
    \/ \E u \in Users, c \in Chats :
            /\ loop.main = "running" /\ "create_command" \in loop.handlers
            /\ unspent[u] = 0 /\ create_command(u, c)
    \/ \E u \in Users, c \in Chats :
            /\ loop.main = "running" /\ "terminate_command" \in loop.handlers
            /\ terminate_command(u, c)
            /\ last'.polled # <<>> => Len(last'.polled[1].pods) <= 1
    \/ \E u \in Users, c \in Chats :
            /\ loop.main = "running" /\ "stop_command" \in loop.handlers
            /\ stop_command(u, c)
            /\ last'.polled # <<>> => Len(last'.polled[1].pods) <= 1
    \/ \E u \in Users, c \in Chats, data \in StartedPresses :
            /\ loop.main = "running" /\ "button_callback" \in loop.handlers
            /\ button_denied(u, c, data)
    \/ \E u \in Users, c \in Chats, data \in Routed["cancel"] \cap StartedPresses :
            /\ loop.main = "running" /\ "button_callback" \in loop.handlers
            /\ button_cancel(u, c, data)
    \/ \E u \in Users, c \in Chats, data \in Routed["crconfirm"] \cap StartedPresses :
            /\ loop.main = "running" /\ "button_callback" \in loop.handlers
            /\ button_crconfirm(u, c, data)
    \/ \E u \in Users, c \in Chats, data \in Routed["terminate_"] \cap StartedPresses :
            /\ loop.main = "running" /\ "button_callback" \in loop.handlers
            /\ button_terminate(u, c, data)
    \/ \E u \in Users, c \in Chats, data \in Routed["stop_"] \cap StartedPresses :
            /\ loop.main = "running" /\ "button_callback" \in loop.handlers
            /\ button_stop(u, c, data)
    \/ (/\ loop.poller # "none"
        /\ check_pods
        /\ last'.polled # <<>> => Len(last'.polled[1].pods) <= 1)

SpecStarted == InitProcess /\ [][NextStarted]_vars

\* ------------------------------------------------------------------------
\* The tray supervisor (tray_app.py): every request of the menu or of the log
\* window runs on a thread of its own; the body of each "with self._lock" is
\* one step, the bot process exits at any moment
\* ------------------------------------------------------------------------
\* a thread takes its next step, or returns when pc is "done"
Step(t, pc, target) ==
    (tray.threads (-) SetToBag({t}))
        (+) (IF pc = "done" THEN EmptyBag
             ELSE SetToBag({[kind |-> t.kind, pc |-> pc, target |-> target]}))

\* TrayApp.run: the icon and the window exist, the bot is started on a thread
run ==
    /\ ~tray.ran
    /\ tray' = [tray EXCEPT !.ran = TRUE,
                            !.threads = @ (+) SetToBag({[kind |-> "start", pc |-> "start", target |-> 0]})]
    /\ UNCHANGED <<config, loop, user_data, unspent, progress, last>>

\* _on_start, _on_stop, _on_restart and the buttons of the log window
request(kind) ==
    /\ tray.ran
    /\ tray.requests < MaxRequests
    /\ tray' = [tray EXCEPT !.requests = @ + 1,
                            !.threads = @ (+) SetToBag({[kind |-> kind,
                                              pc |-> IF kind = "start" THEN "start" ELSE "stop",
                                              target |-> 0]})]
    /\ UNCHANGED <<config, loop, user_data, unspent, progress, last>>

\* the locked part of start_bot without its first test
start_bot_unchecked(t) ==
    LET p == tray.launched + 1
    IN  /\ t \in BagToSet(tray.threads)
        /\ t.pc = "start"
        /\ tray.launched < MaxLaunched
        /\ tray' = [tray EXCEPT !.launched = p, !.process = p, !.alive = @ \cup {p},
                                !.running = TRUE, !.threads = Step(t, "spawn", 0)]
        /\ UNCHANGED <<config, loop, user_data, unspent, progress, last>>

\* start_bot, the locked part: return if the process is alive, else Popen
start_bot(t) ==
    LET p == tray.launched + 1
    IN  /\ t \in BagToSet(tray.threads)
        /\ t.pc = "start"
        /\ IF tray.process # 0 /\ tray.process \in tray.alive
           THEN tray' = [tray EXCEPT !.threads = Step(t, "done", 0)]
           ELSE /\ tray.launched < MaxLaunched
                /\ tray' = [tray EXCEPT !.launched = p, !.process = p,
                                        !.alive = @ \cup {p}, !.running = TRUE,
                                        !.threads = Step(t, "spawn", 0)]
        /\ UNCHANGED <<config, loop, user_data, unspent, progress, last>>

\* start_bot after the lock: the watcher thread is started
spawn_watcher(t) ==
    /\ t \in BagToSet(tray.threads)
    /\ t.pc = "spawn"
    /\ tray' = [tray EXCEPT !.threads = Step(t, "done", 0)
                                        (+) SetToBag({[kind |-> "watch", pc |-> "begin", target |-> 0]})]
    /\ UNCHANGED <<config, loop, user_data, unspent, progress, last>>

\* stop_bot, the locked part: terminate, wait up to 10 s, kill; exited says
\* whether the process is gone when the lock is released
stop_bot(t, exited) ==
    LET next == IF t.kind = "restart" THEN "sleep" ELSE "done"
    IN  /\ t \in BagToSet(tray.threads)
        /\ t.pc = "stop"
        /\ IF ~(tray.process # 0 /\ tray.process \in tray.alive)
           THEN /\ exited
                /\ tray' = [tray EXCEPT !.running = FALSE, !.threads = Step(t, next, 0)]
           ELSE tray' = [tray EXCEPT !.running = FALSE, !.threads = Step(t, next, 0),
                                     !.stopped = @ \cup {tray.process},
                                     !.alive = IF exited THEN @ \ {tray.process} ELSE @]
        /\ UNCHANGED <<config, loop, user_data, unspent, progress, last>>

\* restart_bot: time.sleep(1) between stop_bot and start_bot
sleep_over(t) ==
    /\ t \in BagToSet(tray.threads)
    /\ t.pc = "sleep"
    /\ tray' = [tray EXCEPT !.threads = Step(t, "start", 0)]
    /\ UNCHANGED <<config, loop, user_data, unspent, progress, last>>

\* _watch_process begins: it waits for whatever self.process is by now
watch_begin(t) ==
    /\ t \in BagToSet(tray.threads)
    /\ t.pc = "begin"
    /\ tray' = [tray EXCEPT !.threads =
                   IF tray.process = 0 THEN Step(t, "done", 0)
                   ELSE Step(t, "waiting", tray.process)]
    /\ UNCHANGED <<config, loop, user_data, unspent, progress, last>>

\* self.process.wait() returned
watch_woken(t) ==
    /\ t \in BagToSet(tray.threads)
    /\ t.pc = "waiting"
    /\ t.target \notin tray.alive
    /\ tray' = [tray EXCEPT !.threads = Step(t, "woken", t.target)]
    /\ UNCHANGED <<config, loop, user_data, unspent, progress, last>>

\* _watch_process, the locked part: if self.running, clear it and notify
watch_locked(t) ==
    /\ t \in BagToSet(tray.threads)
    /\ t.pc = "woken"
    /\ tray' = IF tray.running
               THEN [tray EXCEPT !.running = FALSE, !.threads = Step(t, "done", 0),
                                 !.notified = @ \cup {t.target}]
               ELSE [tray EXCEPT !.threads = Step(t, "done", 0)]
    /\ UNCHANGED <<config, loop, user_data, unspent, progress, last>>

\* the bot process ends: by itself, or after terminate() or kill()
bot_exits(p) ==
    /\ p \in tray.alive
    /\ tray' = [tray EXCEPT !.alive = @ \ {p}]
    /\ UNCHANGED <<config, loop, user_data, unspent, progress, last>>

NextTray ==
    \/ run
    \/ \E kind \in {"start", "stop", "restart"} : request(kind)
    \/ \E p \in 1..MaxLaunched : bot_exits(p)
    \/ \E t \in [kind : {"start", "stop", "restart", "watch"},
                 pc : {"start", "spawn", "stop", "sleep", "begin", "waiting", "woken"},
                 target : 0..MaxLaunched] :
          \/ start_bot(t)
          \/ spawn_watcher(t)
          \/ \E exited \in BOOLEAN : stop_bot(t, exited)
          \/ sleep_over(t)
          \/ watch_begin(t)
          \/ watch_woken(t)
          \/ watch_locked(t)

SpecTray == InitWizard /\ [][NextTray]_vars

\* ------------------------------------------------------------------------
\* Properties
\* ------------------------------------------------------------------------
\* C1: is_authorized denies exactly when the configured chat id is set and
\* the incoming chat differs from it, or the user allow-list is non-empty and
\* the sender is not in it; it allows in every other case.
AuthorizationTruthTable ==
    LET allowList == IF ALLOWED_USER_IDS = <<" ", "1", " ", ",", ",">> THEN {1} ELSE {}
        chatDiffers == /\ TELEGRAM_CHAT_ID # <<>>
                       /\ ~(TELEGRAM_CHAT_ID = <<"1">> /\ last.chat = 1)
        userMissing == allowList # {} /\ last.user \notin allowList
    IN  last.handler \notin {"init", "check_pods"} =>
            /\ last.auth \in {"allow", "deny"}
            /\ last.auth = "deny" <=> (chatDiffers \/ userMissing)

\* a listed user is rejected in a chat other than the configured one
AuthDeniedByChatOnly ==
    /\ last.auth = "deny"
    /\ TELEGRAM_CHAT_ID = <<"1">>
    /\ ALLOWED_USER_IDS = <<" ", "1", " ", ",", ",">>
    /\ last.user = 1
    /\ last.chat = 2

\* C2: an event from a sender is_authorized denies gets the fixed denial text
\* and nothing else: no provider call, no notification, no session change.
DeniedEventChangesNothing ==
    [][last'.auth = "deny" =>
          /\ Len(last'.out) = 1
          /\ last'.out[1].text = DenialText
          /\ Len(last'.calls) = 0
          /\ Len(last'.alerts) = 0
          /\ last'.raised = "none"
          /\ user_data' = user_data]_vars

\* a rejected cancel press while the sender has a session
DeniedCancelKeepsSession ==
    /\ last.auth = "deny"
    /\ last.data = <<"cancel">>
    /\ Has(user_data[last.user], "create_pod")

\* C3: a confirm leaves no session behind and issues at most one creation
\* request, a confirm without session issues none and answers "session
\* expired", only /create stores a session, and the creation requests of a
\* user never outnumber the /create invocations that stored a session.
NoDoubleSubmit ==
    /\ [](\A u \in Users : unspent[u] >= 0)
    /\ [][(/\ last'.handler = "button_callback"
           /\ last'.auth = "allow"
           /\ last'.data = <<"crconfirm">>) =>
              /\ ~Has(user_data'[last'.user], "create_pod")
              /\ Len(last'.calls) <= 1
              /\ ~Has(user_data[last'.user], "create_pod") =>
                    /\ Len(last'.calls) = 0
                    /\ Len(last'.out) = 1
                    /\ last'.out[1].text = SessionExpired.text]_vars
    /\ [][\A u \in Users :
            LET stored == IF /\ last'.handler = "create_command"
                             /\ last'.user = u
                             /\ last'.auth = "allow"
                             /\ last'.out[1].text = "choose a template"
                          THEN 1 ELSE 0
                requests == IF last'.user = u
                            THEN Cardinality({i \in 1..Len(last'.calls) :
                                                last'.calls[i].op = "create_pod_api"})
                            ELSE 0
            IN  /\ (~Has(user_data[u], "create_pod") /\ Has(user_data'[u], "create_pod"))
                        => stored = 1
                /\ stored = 1 => Has(user_data'[u], "create_pod")
                /\ unspent'[u] = unspent[u] + stored - requests]_vars

\* a second confirm after a confirm that submitted the request
DuplicateConfirmExpired ==
    /\ last.handler = "button_callback"
    /\ last.auth = "allow"
    /\ last.data = <<"crconfirm">>
    /\ last.from = "Submitted"
    /\ Len(last.calls) = 0
    /\ Len(last.out) = 1
    /\ last.out[1].text = SessionExpired.text
    /\ unspent[last.user] = 0

\* C4: a wizard button pressed by an authorized user who has no session gets
\* the "session expired" reply; no provider call, no session, no exception.
ExpiredSessionReply ==
    [][(/\ last'.handler = "button_callback"
        /\ last'.auth = "allow"
        /\ Route(last'.data) \in {"crtpl_", "crvol_", "crgpu_", "crconfirm"}
        /\ ~Has(user_data[last'.user], "create_pod")) =>
           /\ Len(last'.out) = 1
           /\ last'.out[1].text = SessionExpired.text
           /\ Len(last'.calls) = 0
           /\ last'.raised = "none"
           /\ user_data' = user_data]_vars

\* C5: no handler fails on a session field that no earlier step has set.
NoMissingFieldError == last.raised # "KeyError"

\* C6: a creation request is sent only when the steps taken since the last
\* /create were template, volume choice, GPU, in that order.
LinearWizard ==
    [][(\E i \in 1..Len(last'.calls) : last'.calls[i].op = "create_pod_api") =>
          progress[last'.user] = "AwaitingConfirm"]_vars

\* C7: every menu of the wizard offers cancel; an authorized cancel leaves no
\* session, calls nothing and answers "cancelled"; a creation request needs a
\* session, and only /create stores one.
CancelDiscardsSession ==
    /\ [](last.handler \in {"create_command", "button_callback"} =>
            \A i \in 1..Len(last.out) :
                last.out[i].text \in {"choose a template", "choose a volume",
                                      "choose a GPU", "confirm the creation"} =>
                    \E j \in 1..Len(last.out[i].keyboard) :
                        last.out[i].keyboard[j].data = <<"cancel">>)
    /\ [][(/\ last'.handler = "button_callback"
           /\ last'.auth = "allow"
           /\ last'.data = <<"cancel">>) =>
              /\ ~Has(user_data'[last'.user], "create_pod")
              /\ Len(last'.calls) = 0
              /\ Len(last'.out) = 1
              /\ last'.out[1].text = "cancelled"
              /\ last'.raised = "none"]_vars
    /\ [][(\E i \in 1..Len(last'.calls) : last'.calls[i].op = "create_pod_api") =>
              Has(user_data[last'.user], "create_pod")]_vars
    /\ [][\A u \in Users :
            (~Has(user_data[u], "create_pod") /\ Has(user_data'[u], "create_pod")) =>
                last'.handler = "create_command"]_vars

\* cancel pressed on the confirmation screen
CancelAtConfirm ==
    /\ last.handler = "button_callback"
    /\ last.auth = "allow"
    /\ last.data = <<"cancel">>
    /\ last.from = "AwaitingConfirm"
    /\ ~Has(user_data[last.user], "create_pod")

\* C8: a terminate_ or stop_ press whose id is empty or has a character
\* outside [A-Za-z0-9-] is rejected as invalid without a provider call, and
\* the provider only ever gets ids made of these characters.
PodIdAsciiOnly ==
    LET pod_id == Drop(last.data, 1)
        ascii == /\ pod_id # <<>>
                 /\ \A i \in 1..Len(pod_id) : pod_id[i] \in AsciiAlnum \cup {"-"}
    IN  (/\ last.handler = "button_callback"
         /\ last.auth = "allow"
         /\ Route(last.data) \in {"terminate_", "stop_"}) =>
            /\ ~ascii => /\ Len(last.calls) = 0
                         /\ Len(last.out) = 1
                         /\ last.out[1].text = InvalidRequest.text
            /\ Len(last.calls) > 0 => ascii

\* C9: a tick attempts no notification for an empty instance list and exactly
\* one for a non-empty list, always to TELEGRAM_CHAT_ID, also when formatting
\* or the send fails.
PollNotifiesOnce ==
    last.handler = "check_pods" =>
        LET res == last.polled[1]
        IN  /\ (res.ok /\ res.pods = <<>>) => Len(last.alerts) = 0
            /\ (res.ok /\ res.pods # <<>>) => Len(last.alerts) = 1
            /\ \A i \in 1..Len(last.alerts) : last.alerts[i].chat_id = TELEGRAM_CHAT_ID

\* a tick whose report was composed and whose send failed
PollSendFailed ==
    /\ last.handler = "check_pods"
    /\ last.polled[1].ok
    /\ Len(last.polled[1].pods) = 2
    /\ Len(last.alerts) = 1
    /\ last.alerts[1].text.kind = "report"
    /\ last.alerts[1].result = "raise"

\* C10: a tick whose listing fails pushes exactly one notification, the error
\* notification with the failure detail, and no report.
PollListingFailure ==
    (last.handler = "check_pods" /\ ~last.polled[1].ok) =>
        /\ Len(last.alerts) = 1
        /\ last.alerts[1].text.kind = "error"
        /\ last.alerts[1].text.detail = last.polled[1].err

\* a tick whose listing failed with a timeout
PollListingTimedOut ==
    /\ last.handler = "check_pods"
    /\ ~last.polled[1].ok
    /\ last.polled[1].err = "timeout"
    /\ Len(last.alerts) = 1

\* the hourly cost of the RUNNING entries among the first n of pods
RECURSIVE CostOfRunningUpTo(_, _)
CostOfRunningUpTo(pods, n) ==
    IF n = 0 THEN 0
    ELSE CostOfRunningUpTo(pods, n - 1)
            + (IF "desiredStatus" \in DOMAIN pods[n] /\ pods[n].desiredStatus = "RUNNING"
                  /\ "costPerHr" \in DOMAIN pods[n]
               THEN pods[n].costPerHr ELSE 0)

\* C11: the report of a tick counts the instances, counts those whose
\* desiredStatus is RUNNING, and totals costPerHr over exactly these; the
\* cost line is there exactly when some instance is RUNNING.
ReportCountsAndCost ==
    (/\ last.handler = "check_pods"
     /\ Len(last.alerts) = 1
     /\ last.alerts[1].text.kind = "report") =>
        LET pods == last.polled[1].pods
            report == last.alerts[1].text
            running == {i \in 1..Len(pods) :
                          /\ "desiredStatus" \in DOMAIN pods[i]
                          /\ pods[i].desiredStatus = "RUNNING"}
            total == CostOfRunningUpTo(pods, Len(pods))
        IN  /\ report.count = Len(pods)
            /\ report.running = Cardinality(running)
            /\ (report.cost # <<>>) <=> (running # {})
            /\ running # {} => report.cost = <<total \div 10000, total % 10000>>

\* a report over one RUNNING and one EXITED instance
ReportMixedStatuses ==
    /\ last.handler = "check_pods"
    /\ Len(last.alerts) = 1
    /\ last.alerts[1].text.kind = "report"
    /\ last.alerts[1].text.count = 2
    /\ last.alerts[1].text.running = 1
    /\ last.alerts[1].text.cost = <<1, 5000>>

\* C12: generate_pod_name returns the first 20 characters of the template
\* name with every space replaced by a hyphen, then "-" and the timestamp, and
\* the result has no whitespace character of any kind.
PodNameForm ==
    last.handler = "generate_pod_name" =>
        LET template_name == last.data
            result == last.out[1].args[1]
            ts == last.out[1].args[2]
            n == IF Len(template_name) < 20 THEN Len(template_name) ELSE 20
        IN  /\ Len(result) = n + 1 + Len(ts)
            /\ \A i \in 1..n :
                  result[i] = IF template_name[i] = " " THEN "-" ELSE template_name[i]
            /\ result[n + 1] = "-"
            /\ \A i \in 1..Len(ts) : result[n + 1 + i] = ts[i]
            /\ \A i \in 1..Len(result) : result[i] \notin {" ", "\t", "\n"}

\* C13: an authorized /create that finds an empty template list answers "no
\* template" and leaves the sender without a session, whatever came before.
EmptyTemplateListEndsWizard ==
    [][(/\ last'.handler = "create_command"
        /\ last'.auth = "allow"
        /\ last'.polled[1].kind = "list"
        /\ last'.polled[1].body = <<>>) =>
           /\ Len(last'.out) = 1
           /\ last'.out[1].text = "no template registered"
           /\ ~Has(user_data'[last'.user], "create_pod")]_vars

\* C14: a crtpl_ press whose id is not in the session's template cache gets
\* an error reply, requests no volume listing and ends the wizard.
UnknownTemplateEndsWizard ==
    [][(/\ last'.handler = "button_callback"
        /\ last'.auth = "allow"
        /\ Route(last'.data) = "crtpl_"
        /\ Has(user_data[last'.user], "create_pod")
        /\ Drop(last'.data, 1)
             \notin DOMAIN Get(user_data[last'.user].create_pod, "_templates", EmptyDict)) =>
           /\ Len(last'.out) = 1
           /\ last'.out[1].text = "template not found"
           /\ Len(last'.calls) = 0
           /\ ~Has(user_data'[last'.user], "create_pod")]_vars

\* C15: a crvol_ press whose id is not in the session's volume cache is
\* answered "invalid request" and records nothing, and a creation request
\* carries no volume id or the id of a listed volume.
UnknownVolumeRejected ==
    /\ [][(/\ last'.handler = "button_callback"
           /\ last'.auth = "allow"
           /\ Route(last'.data) = "crvol_"
           /\ Has(user_data[last'.user], "create_pod")
           /\ Drop(last'.data, 1) # <<"none">>
           /\ Drop(last'.data, 1)
                \notin DOMAIN Get(user_data[last'.user].create_pod, "_volumes", EmptyDict)) =>
              /\ Len(last'.out) = 1
              /\ last'.out[1].text = InvalidRequest.text
              /\ user_data' = user_data]_vars
    /\ [][\A i \in 1..Len(last'.calls) :
            (last'.calls[i].op = "create_pod_api"
                /\ "networkVolumeId" \in DOMAIN last'.calls[i].arg) =>
                    last'.calls[i].arg.networkVolumeId \in {Volume1.id, Volume2.id}]_vars

\* C16: the creation request asks for one GPU of the chosen type; with a
\* volume id in the session it carries that id, volumeInGb 0 and the location
\* exactly when the session has one; without, volumeInGb 20 and neither.
ConfirmRequestVolumeRule ==
    [][\A i \in 1..Len(last'.calls) :
         last'.calls[i].op = "create_pod_api" =>
            LET cfg == last'.calls[i].arg
                state == user_data[last'.user].create_pod
                hasVolume == /\ "volume_id" \in DOMAIN state
                             /\ state.volume_id.t = "str"
                             /\ state.volume_id.v # <<>>
                hasLocation == /\ "data_center_id" \in DOMAIN state
                               /\ state.data_center_id # <<>>
            IN  /\ cfg.gpuCount = 1
                /\ cfg.gpuTypeIds = <<state.gpu_type>>
                /\ hasVolume =>
                      /\ "networkVolumeId" \in DOMAIN cfg
                      /\ cfg.networkVolumeId = state.volume_id.v
                      /\ cfg.volumeInGb = 0
                      /\ ("dataCenterIds" \in DOMAIN cfg) <=> hasLocation
                      /\ hasLocation => cfg.dataCenterIds = <<state.data_center_id>>
                /\ ~hasVolume =>
                      /\ cfg.volumeInGb = 20
                      /\ "networkVolumeId" \notin DOMAIN cfg
                      /\ "dataCenterIds" \notin DOMAIN cfg]_vars

\* a request for a pod on a volume whose data center is known
RequestWithLocatedVolume ==
    /\ Len(last.calls) = 1
    /\ last.calls[1].op = "create_pod_api"
    /\ "dataCenterIds" \in DOMAIN last.calls[1].arg
    /\ last.calls[1].arg.networkVolumeId = Volume1.id
    /\ last.calls[1].arg.volumeInGb = 0

\* C17: in the creation request a ports str becomes the list of its trimmed,
\* non-empty comma-separated tokens in order and a ports list is passed on;
\* a non-empty docker_args str is split on whitespace, a list is passed on,
\* and empty docker_args add no dockerStartCmd.
RequestPortsAndArgs ==
    [][\A i \in 1..Len(last'.calls) :
         last'.calls[i].op = "create_pod_api" =>
            LET cfg == last'.calls[i].arg
                state == user_data[last'.user].create_pod
                ports_raw == IF "ports" \in DOMAIN state THEN state.ports
                             ELSE Str(<<"8888/http", ",", "22/tcp">>)
                docker_args == IF "docker_args" \in DOMAIN state THEN state.docker_args
                               ELSE None
            IN  /\ ports_raw.t = "list" => cfg.ports = ports_raw
                /\ ports_raw.t = "str" =>
                      /\ cfg.ports.t = "list"
                      /\ \A k \in 1..Len(cfg.ports.v) :
                            LET tok == cfg.ports.v[k]
                            IN  /\ tok # <<>>
                                /\ Head(tok) \notin Whitespace
                                /\ tok[Len(tok)] \notin Whitespace
                                /\ \A j \in 1..Len(tok) : tok[j] # ","
                      /\ ports_raw.v = <<"80/http", ",", " ", "22/tcp", ",">> =>
                            cfg.ports.v = <<<<"80/http">>, <<"22/tcp">>>>
                      /\ ports_raw.v = <<"8888/http", ",", "22/tcp">> =>
                            cfg.ports.v = <<<<"8888/http">>, <<"22/tcp">>>>
                /\ (docker_args.t = "str" /\ docker_args.v = <<"-x", " ", " ", "-y">>) =>
                      /\ "dockerStartCmd" \in DOMAIN cfg
                      /\ cfg.dockerStartCmd = <<<<"-x">>, <<"-y">>>>
                /\ (docker_args.t = "list" /\ docker_args.v # <<>>) =>
                      /\ "dockerStartCmd" \in DOMAIN cfg
                      /\ cfg.dockerStartCmd = docker_args.v
                /\ (docker_args.t = "none" \/ docker_args.v = <<>>) =>
                      "dockerStartCmd" \notin DOMAIN cfg]_vars

\* a request whose ports and start command were both given as a str
RequestFromStrings ==
    /\ Len(last.calls) = 1
    /\ last.calls[1].op = "create_pod_api"
    /\ last.calls[1].arg.templateId = Template1.id
    /\ last.calls[1].arg.ports = List(<<<<"80/http">>, <<"22/tcp">>>>)
    /\ last.calls[1].arg.dockerStartCmd = <<<<"-x">>, <<"-y">>>>

\* C18: a crgpu_ press whose index is no integer, negative or beyond the GPU
\* list is answered "invalid GPU" and leaves the session as it was; a valid
\* index i stores the i-th preferred GPU.
InvalidGpuKeepsSession ==
    [][(/\ last'.handler = "button_callback"
        /\ last'.auth = "allow"
        /\ Route(last'.data) = "crgpu_"
        /\ Has(user_data[last'.user], "create_pod")) =>
           LET x == Drop(last'.data, 1)
               valid == x \in {<<"0">>, <<"1">>, <<"2">>}
           IN  /\ ~valid =>
                     /\ Len(last'.out) = 1
                     /\ last'.out[1].text = "invalid GPU choice"
                     /\ Len(last'.calls) = 0
                     /\ last'.raised = "none"
                     /\ user_data' = user_data
               /\ valid =>
                     /\ Has(user_data'[last'.user], "create_pod")
                     /\ user_data'[last'.user].create_pod.gpu_type
                            = PREFERRED_GPUS[DigitVal[x[1]] + 1]]_vars

\* a negative index pressed at the GPU step
NegativeGpuIndexRefused ==
    /\ last.handler = "button_callback"
    /\ last.auth = "allow"
    /\ last.data = <<"crgpu_", "-", "1">>
    /\ last.from = "AwaitingGpu"
    /\ Has(user_data[last.user], "create_pod")
    /\ ~Has(user_data[last.user].create_pod, "gpu_type")

\* C19: a session with a chosen template has no template cache, a session
\* with a chosen GPU has no volume cache, and the session a confirm consumes
\* has neither.
CachesAreTransient ==
    [][\A u \in Users :
         /\ Has(user_data'[u], "create_pod") =>
               LET state == user_data'[u].create_pod
               IN  /\ Has(state, "template_id") => ~Has(state, "_templates")
                   /\ Has(state, "gpu_type") => ~Has(state, "_volumes")
         /\ (/\ last'.handler = "button_callback"
             /\ last'.auth = "allow"
             /\ last'.user = u
             /\ last'.data = <<"crconfirm">>
             /\ Has(user_data[u], "create_pod")) =>
               /\ ~Has(user_data[u].create_pod, "_templates")
               /\ ~Has(user_data[u].create_pod, "_volumes")]_vars

\* C20: after a template was chosen, a non-empty volume listing is cached in
\* the session and shown as one button per volume, "no volume" and cancel;
\* an empty listing sets volume_id to None, caches nothing and shows the GPUs.
TemplateStepOutcome ==
    [][(/\ last'.handler = "button_callback"
        /\ last'.auth = "allow"
        /\ Route(last'.data) = "crtpl_"
        /\ Has(user_data[last'.user], "create_pod")
        /\ Drop(last'.data, 1)
             \in DOMAIN Get(user_data[last'.user].create_pod, "_templates", EmptyDict)
        /\ last'.polled[1].kind = "list") =>
           LET listed == last'.polled[1].body
               state == user_data'[last'.user].create_pod
               keyboard == last'.out[1].keyboard
           IN  /\ Len(last'.out) = 1
               /\ state.template_id = Drop(last'.data, 1)
               /\ listed # <<>> =>
                     /\ last'.out[1].text = "choose a volume"
                     /\ Has(state, "_volumes")
                     /\ DOMAIN state._volumes = {listed[i].id : i \in 1..Len(listed)}
                     /\ \A i \in 1..Len(listed) : state._volumes[listed[i].id] = listed[i]
                     /\ Len(keyboard) = Len(listed) + 2
                     /\ \A i \in 1..Len(listed) :
                           keyboard[i].data = <<"crvol_">> \o listed[i].id
                     /\ keyboard[Len(listed) + 1].data = <<"crvol_", "none">>
                     /\ keyboard[Len(listed) + 2].data = <<"cancel">>
                     /\ last'.from = "AwaitingTemplate" =>
                           progress'[last'.user] = "AwaitingVolume"
               /\ listed = <<>> =>
                     /\ last'.out[1].text = "choose a GPU"
                     /\ Has(state, "volume_id")
                     /\ state.volume_id = None
                     /\ ~Has(state, "_volumes")
                     /\ last'.from = "AwaitingTemplate" =>
                           progress'[last'.user] = "AwaitingGpu"]_vars

\* the volume menu after a template choice
VolumeMenuShown ==
    /\ last.handler = "button_callback"
    /\ last.auth = "allow"
    /\ Route(last.data) = "crtpl_"
    /\ last.out[1].text = "choose a volume"
    /\ Len(last.out[1].keyboard) = 4
    /\ progress[last.user] = "AwaitingVolume"
    /\ Has(user_data[last.user].create_pod, "_volumes")

\* C30: the block of an instance shows the GPU display name of its machine
\* record, or N/A when that record is missing or has none, and always the id,
\* the name or N/A, the status and the hourly cost with four decimals.
PodBlockShowsMachineGpu ==
    (last.handler = "check_pods" /\ Len(last.alerts) = 1
        /\ last.alerts[1].text.kind = "report") =>
        LET pods == last.polled[1].pods
            blocks == last.alerts[1].text.blocks
        IN  /\ Len(blocks) = Len(pods)
            /\ \A i \in 1..Len(pods) :
                  LET pod == pods[i]
                      machine == IF "machine" \in DOMAIN pod THEN pod.machine ELSE <<>>
                  IN  /\ blocks[i].gpu = IF "gpuDisplayName" \in DOMAIN machine
                                         THEN machine.gpuDisplayName ELSE "N/A"
                      /\ blocks[i].id = pod.id
                      /\ blocks[i].name = IF "name" \in DOMAIN pod THEN pod.name ELSE <<"N/A">>
                      /\ blocks[i].status = pod.desiredStatus
                      /\ blocks[i].cost = <<pod.costPerHr \div 10000, pod.costPerHr % 10000>>

\* C27: a listing answer that is no list counts as an empty list and a failed
\* request reaches the caller: /create answers "no template" to the first and
\* "failed to fetch" to the second, and neither creates or changes a session;
\* a template choice takes a volume answer that is no list as "no volume" and
\* answers a failed volume request with an error.
ListingToleratesMalformed ==
    [][/\ (/\ last'.handler = "create_command"
           /\ last'.auth = "allow"
           /\ last'.polled[1].kind \in {"other", "raise"}) =>
              /\ Len(last'.out) = 1
              /\ last'.polled[1].kind = "other" =>
                    last'.out[1].text = "no template registered"
              /\ last'.polled[1].kind = "raise" =>
                    last'.out[1].text = "failed to fetch the templates"
              /\ Len(last'.calls) = 1
              /\ user_data' = user_data
       /\ (/\ last'.handler = "button_callback"
           /\ last'.auth = "allow"
           /\ Route(last'.data) = "crtpl_"
           /\ last'.polled # <<>>
           /\ last'.polled[1].kind \in {"other", "raise"}) =>
              /\ Len(last'.out) = 1
              /\ last'.polled[1].kind = "other" =>
                    /\ last'.out[1].text = "choose a GPU"
                    /\ ~Has(user_data'[last'.user].create_pod, "_volumes")
              /\ last'.polled[1].kind = "raise" =>
                    last'.out[1].text = "error, try again"]_vars

\* a /create answered by a JSON value that is no list, while a session with a
\* chosen GPU exists
MalformedListingKeepsSession ==
    /\ last.handler = "create_command"
    /\ last.auth = "allow"
    /\ last.polled[1].kind = "other"
    /\ last.out[1].text = "no template registered"
    /\ Has(user_data[last.user], "create_pod")
    /\ Has(user_data[last.user].create_pod, "gpu_type")

ConfirmAlwaysReportsOutcome ==
    [][(/\ last'.handler = "button_callback"
        /\ last'.auth = "allow"
        /\ last'.data = <<"crconfirm">>
        /\ Has(user_data[last'.user], "create_pod")) =>
           /\ ~Has(user_data'[last'.user], "create_pod")
           /\ last'.raised = "none"
           /\ Len(last'.out) = 2
           /\ last'.out[1].text = "creating the pod"
           /\ Len(last'.calls) = 1
           /\ last'.calls[1].op = "create_pod_api"
           /\ Len(last'.polled) = 1
           /\ last'.polled[1].kind = "ok" =>
                 /\ last'.out[2].text = "pod created"
                 /\ "id" \in DOMAIN last'.polled[1].body =>
                       last'.out[2].args[1] = last'.polled[1].body.id
           /\ last'.polled[1].kind # "ok" =>
                 last'.out[2].text \in {"pod creation failed",
                                        "pod creation failed, try again later"}]_vars

\* C28: every press of an authorized sender is acknowledged once, handled by
\* the one branch its prefix selects among cancel, crtpl_, crvol_, crgpu_,
\* crconfirm, terminate_ and stop_, and answered with a message.
EveryPressHandled ==
    (last.handler = "button_callback" /\ last.auth = "allow") =>
        /\ last.answered = 1
        /\ Route(last.data) \in {"cancel", "crtpl_", "crvol_", "crgpu_", "crconfirm",
                                 "terminate_", "stop_"}
        /\ last.raised = "none"
        /\ Len(last.out) >= 1
        /\ Route(last.data) \in {"terminate_", "stop_"} =>
              last.out[1].text \in {"invalid request", "in progress"}

\* the texts that tell a user that a provider call failed
FailureTexts ==
    {"error, try again later", "failed to fetch the templates", "error, try again",
     "pod creation failed", "pod creation failed, try again later",
     "failed, try again later"}

\* C23: one handler invocation or tick calls each provider operation at most
\* once, and a provider call that failed is surfaced exactly once: one failure
\* message to the sender, or one error notification of the poller.
NoRetrySurfacedOnce ==
    LET failureMsgs == {i \in 1..Len(last.out) : last.out[i].text \in FailureTexts}
        listing == last.handler \in {"status_command", "pods_command",
                                     "terminate_command", "stop_command", "check_pods"}
        rest == last.handler = "create_command"
                  \/ (last.handler = "button_callback"
                        /\ Route(last.data) \in {"crtpl_", "crconfirm"})
        action == last.handler = "button_callback"
                    /\ Route(last.data) \in {"terminate_", "stop_"}
        failed == /\ last.polled # <<>>
                  /\ \/ listing /\ ~last.polled[1].ok
                     \/ rest /\ last.polled[1].kind \in {"raise", "http"}
                     \/ action /\ last.polled[1] = "raise"
    IN  /\ \A i, j \in 1..Len(last.calls) :
              last.calls[i].op = last.calls[j].op => i = j
        /\ Len(last.polled) <= 1
        /\ last.polled # <<>> => Len(last.calls) = 1
        /\ failed =>
              IF last.handler = "check_pods"
              THEN /\ Len(last.alerts) = 1
                   /\ last.alerts[1].text.kind = "error"
                   /\ last.alerts[1].text.detail = last.polled[1].err
              ELSE /\ Cardinality(failureMsgs) = 1
                   /\ Len(last.out) \in failureMsgs
                   /\ last.alerts = <<>>

\* a creation request that failed with an HTTP error status
CreationFailureReported ==
    /\ last.handler = "button_callback"
    /\ last.data = <<"crconfirm">>
    /\ Len(last.polled) = 1
    /\ last.polled[1].kind = "http"
    /\ Len(last.calls) = 1
    /\ last.out[2].text = "pod creation failed"

\* C26: an event of one user leaves every other user's session as it was and
\* the poll tick leaves every session as it was; every creation request is
\* built from the sender's own session alone, so that under every interleaving
\* of the two runs it carries the template, volume and GPU the sender chose.
SessionsIsolated ==
    [][LET sender == last'.user
           own == PressesOf[sender]
       IN  /\ \A v \in Users :
                 (last'.handler = "check_pods" \/ v # sender)
                     => user_data'[v] = user_data[v]
           /\ \A i \in 1..Len(last'.calls) :
                 last'.calls[i].op = "create_pod_api" =>
                     LET cfg == last'.calls[i].arg
                     IN  /\ cfg = BuildConfig(user_data[sender].create_pod)
                         /\ <<"crtpl_">> \o cfg.templateId \in own
                         /\ \E d \in own \cap Routed["crgpu_"] :
                                cfg.gpuTypeIds =
                                  <<Index(PREFERRED_GPUS,
                                          ParseInt(Drop(d, Len(<<"crgpu_">>))).val)>>
                         /\ Has(cfg, "networkVolumeId")
                                => <<"crvol_">> \o cfg.networkVolumeId \in own
      ]_vars

\* user 1 submits a request with volume while user 2 holds a complete session
\* of their own
ConfirmBesideOtherSession ==
    /\ last.handler = "button_callback"
    /\ last.user = 1
    /\ last.data = <<"crconfirm">>
    /\ Len(last.calls) = 1
    /\ Has(last.calls[1].arg, "networkVolumeId")
    /\ Has(user_data[2], "create_pod")
    /\ Has(user_data[2].create_pod, "gpu_type")
    /\ Has(user_data[2].create_pod, "template_id")
    /\ user_data[2].create_pod.template_id = <<"t", "2">>

\* C29: while one of RUNPOD_API_KEY, TELEGRAM_BOT_TOKEN and TELEGRAM_CHAT_ID
\* is unset, main gets no further than its failure: no handler is registered,
\* no startup notification is attempted and the poller is not started; with
\* all three set, main does not fail.
StartupFailsFast ==
    IF RUNPOD_API_KEY # <<>> /\ TELEGRAM_BOT_TOKEN # <<>> /\ TELEGRAM_CHAT_ID # <<>>
    THEN loop.main # "failed"
    ELSE /\ loop.main \in {"start", "failed"}
         /\ loop.handlers = {}
         /\ loop.startup = "none"
         /\ loop.poller = "none"
         /\ loop.update = "none"

\* main has failed with only the notification destination unset
FailedWithoutChatId ==
    /\ loop.main = "failed"
    /\ RUNPOD_API_KEY # <<>>
    /\ TELEGRAM_BOT_TOKEN # <<>>
    /\ TELEGRAM_CHAT_ID = <<>>

\* C24: the poller task never ends, whatever the listing and the sends do:
\* every tick that has called the provider reaches its sleep, and every sleep
\* is followed by the next tick.
PollerNeverStops ==
    /\ [](loop.poller # "dead")
    /\ (loop.poller = "listing") ~> (loop.poller = "sleeping")
    /\ (loop.poller = "sleeping") ~> (loop.poller = "listing")

\* the poller sleeps after a tick whose notification could not be sent
SleepingAfterFailedSend ==
    /\ loop.poller = "sleeping"
    /\ loop.tick = "logged"

\* C25: while a tick waits for the listing, an update can be taken, and while
\* a handler waits for the provider, a due tick can start.
InterleaveWithoutBlocking ==
    /\ (loop.poller = "listing" /\ loop.update = "none")
            => \E upd \in Updates : ENABLED dispatch(upd)
    /\ (loop.waiting \in {"blocking", "awaited"} /\ loop.poller = "due")
            => ENABLED tick_start

\* C31: an authorized terminate_<id> or stop_<id> press whose id passes the
\* validation edits the message to the progress text, then makes one provider
\* call of its own kind with the id as it came, then edits the message once
\* more, to the success text exactly when the call did not raise; the
\* sender's session stays as it was.
PodActionSequence ==
    [][LET data == last'.data
           prefix == Route(data)
           pod_id == Drop(data, 1)
           op == IF prefix = "terminate_" THEN "terminate_pod" ELSE "stop_pod"
       IN  (/\ last'.handler = "button_callback"
            /\ last'.auth = "allow"
            /\ prefix \in {"terminate_", "stop_"}
            /\ ValidPodId(pod_id))
           => /\ last'.order = <<"out", "call", "out">>
              /\ Len(last'.out) = 2
              /\ last'.out[1] = Msg("in progress", <<op, pod_id>>, <<>>)
              /\ last'.calls = <<Call(op, pod_id)>>
              /\ Len(last'.polled) = 1
              /\ last'.out[2] = IF last'.polled[1] = "ok"
                                THEN Msg("done", <<op, pod_id>>, <<>>)
                                ELSE Msg("failed, try again later", <<op>>, <<>>)
              /\ user_data' = user_data
              /\ last'.raised = "none"
      ]_vars

\* a stop press of a user who holds a session, and the provider call raised
StopFailedBesideSession ==
    /\ last.handler = "button_callback"
    /\ last.data = <<"stop_", "p", "-", "1">>
    /\ last.polled = <<"raise">>
    /\ last.out[2].text = "failed, try again later"
    /\ Has(user_data[last.user], "create_pod")

\* C32: every invocation of a text command leaves exactly one reply: the
\* denial and nothing else for a rejected sender, and for an allowed sender
\* one message that is not the denial, whether the provider answered with
\* nothing, with records or with a failure.
EveryCommandRepliesOnce ==
    last.handler \in {"start_command", "help_command", "status_command", "pods_command",
                      "create_command", "terminate_command", "stop_command"}
        => /\ Len(last.out) = 1
           /\ last.raised = "none"
           /\ last.auth = "deny" => last.out[1] = Denied /\ last.calls = <<>>
           /\ last.auth = "allow" => last.out[1].text # DenialText
           /\ (last.polled # <<>> /\ last.handler # "create_command"
                 /\ ~last.polled[1].ok) => last.out[1] = GenericError

\* /create whose template listing failed
CreateListingFailed ==
    /\ last.handler = "create_command"
    /\ last.auth = "allow"
    /\ last.polled # <<>>
    /\ last.polled[1].kind = "raise"
    /\ last.out = <<Msg("failed to fetch the templates", <<>>, <<>>)>>

\* the records of a listing whose desiredStatus is RUNNING, in their order
RECURSIVE RunningUpTo(_, _)
RunningUpTo(pods, n) ==
    IF n = 0 THEN <<>>
    ELSE IF "desiredStatus" \in DOMAIN pods[n] /\ pods[n].desiredStatus = "RUNNING"
         THEN Append(RunningUpTo(pods, n - 1), pods[n])
         ELSE RunningUpTo(pods, n - 1)

\* C33: /status and the /stop menu are about the RUNNING instances only: the
\* count and the blocks of /status and the stop buttons are one per RUNNING
\* instance, and without a RUNNING instance the reply is "no running pod"
\* whatever else is listed; /pods and the /terminate menu are about every
\* instance, and reply "no pod registered" exactly for the empty list.
ListingCommandsCoverage ==
    (/\ last.handler \in {"status_command", "stop_command", "pods_command",
                          "terminate_command"}
     /\ last.auth = "allow"
     /\ last.polled[1].ok) =>
        LET pods == last.polled[1].pods
            byStatus == last.handler \in {"status_command", "stop_command"}
            covered == IF byStatus THEN RunningUpTo(pods, Len(pods)) ELSE pods
            n == Len(covered)
            reply == last.out[1]
            complete == \A i \in 1..n : "id" \in DOMAIN covered[i]
            prefix == IF last.handler = "stop_command" THEN "stop_" ELSE "terminate_"
        IN  /\ (reply.text = (IF byStatus THEN "no running pod" ELSE "no pod registered"))
                  <=> (n = 0)
            /\ (n > 0 /\ complete) =>
                  IF last.handler \in {"status_command", "pods_command"}
                  THEN /\ reply.text = (IF byStatus THEN "running pods" ELSE "all pods")
                       /\ reply.args[1] = n
                       /\ Len(reply.args[2]) = n
                       /\ \A i \in 1..n : reply.args[2][i].id = covered[i].id
                  ELSE /\ Len(reply.keyboard) = n + 1
                       /\ \A i \in 1..n :
                             reply.keyboard[i].data = <<prefix>> \o covered[i].id
                       /\ reply.keyboard[n + 1].data = <<"cancel">>

\* the /stop menu for a listing of one RUNNING and one EXITED instance
StopMenuSkipsExited ==
    /\ last.handler = "stop_command"
    /\ last.auth = "allow"
    /\ last.polled[1].ok
    /\ Len(last.polled[1].pods) = 2
    /\ last.polled[1].pods[2].desiredStatus = "EXITED"
    /\ Len(last.out[1].keyboard) = 2
    /\ last.out[1].keyboard[1].data = <<"stop_", "p", "-", "1">>

\* C34: a location a creation request carries is the location of the volume
\* the request carries.
LocationBelongsToVolume ==
    [][\A i \in 1..Len(last'.calls) :
          (/\ last'.calls[i].op = "create_pod_api"
           /\ "dataCenterIds" \in DOMAIN last'.calls[i].arg) =>
              LET cfg == last'.calls[i].arg
              IN  /\ "networkVolumeId" \in DOMAIN cfg
                  /\ \E vol \in {Volume1, Volume2} :
                        /\ vol.id = cfg.networkVolumeId
                        /\ "dataCenterId" \in DOMAIN vol
                        /\ cfg.dataCenterIds = <<vol.dataCenterId>>
      ]_vars

\* C35: once the summary has been shown for a session, the name, template,
\* GPU and volume of that session change only in a step that shows a summary
\* again, and the request sent on confirm is built from the session: the
\* request is what the latest summary showed.
SummaryIsWhatIsSubmitted ==
    [][LET u == last'.user
           Shown(ud) == Has(ud, "create_pod") /\ Has(ud.create_pod, "pod_name")
           Choice(st) == <<st.pod_name, Get(st, "template_id", None),
                           Get(st, "gpu_type", None), Get(st, "volume_id", None)>>
       IN  (last'.handler = "button_callback" /\ Shown(user_data[u])) =>
              /\ (/\ Shown(user_data'[u])
                  /\ Choice(user_data'[u].create_pod) # Choice(user_data[u].create_pod))
                    => /\ last'.out # <<>>
                       /\ last'.out[Len(last'.out)].text = "confirm the creation"
                       /\ last'.out[Len(last'.out)].args.name
                             = user_data'[u].create_pod.pod_name
              /\ \A i \in 1..Len(last'.calls) :
                    last'.calls[i].op = "create_pod_api"
                        => last'.calls[i].arg = BuildConfig(user_data[u].create_pod)
      ]_vars

\* C36: a template choice whose volume listing failed tells the user to try
\* again and leaves the session as it was before the press.
FailedVolumeListingKeepsSession ==
    [][(/\ last'.handler = "button_callback"
        /\ Route(last'.data) = "crtpl_"
        /\ last'.polled # <<>>
        /\ last'.polled[1].kind = "raise") =>
            /\ last'.out = <<Msg("error, try again", <<>>, <<>>)>>
            /\ user_data' = user_data
      ]_vars

\* C37: in a bot that main has started TELEGRAM_CHAT_ID is set; a command or
\* press from any other chat is answered with the denial only, calls nothing
\* and changes no session, whatever ALLOWED_USER_IDS is, and every
\* notification of a tick is addressed to TELEGRAM_CHAT_ID.
StartedBotServesOneChat ==
    [][/\ last'.handler # "init" => TELEGRAM_CHAT_ID # <<>>
       /\ (last'.handler \notin {"init", "check_pods"}
             /\ ChatStr[last'.chat] # TELEGRAM_CHAT_ID)
            => /\ last'.auth = "deny"
               /\ last'.out = <<Denied>>
               /\ last'.calls = <<>>
               /\ user_data' = user_data
       /\ last'.handler = "check_pods"
            => \A i \in 1..Len(last'.alerts) :
                  last'.alerts[i].chat_id = TELEGRAM_CHAT_ID
      ]_vars

\* with no user allow-list, /create from the other chat was denied while the
\* sender of the configured chat holds a session
ForeignChatDenied ==
    /\ loop.main = "running"
    /\ ALLOWED_USER_IDS = <<>>
    /\ last.handler = "create_command"
    /\ ChatStr[last.chat] # TELEGRAM_CHAT_ID
    /\ last.auth = "deny"
    /\ \E u \in Users : Has(user_data[u], "create_pod")

\* C38: the supervisor launches a bot process only when none is alive, so at
\* most one is alive at any time.
OneBotProcess ==
    [][/\ tray'.launched # tray.launched => tray.alive = {}
       /\ Cardinality(tray'.alive) <= 1
      ]_vars

\* a second process was launched after a stop request ended the first
StartedAfterStop ==
    /\ tray.launched = 2
    /\ tray.alive = {2}
    /\ 1 \in tray.stopped

\* no request is in progress, no stopped process lingers, and every watcher
\* waits for a live process
Quiescent ==
    /\ tray.stopped \cap tray.alive = {}
    /\ \A t \in BagToSet(tray.threads) : t.pc = "waiting" /\ t.target \in tray.alive

\* C39: when the supervisor's threads are quiescent, running is true exactly
\* when a bot process is alive, and the "exited unexpectedly" notification is
\* never raised for a process that a stop or restart request terminated.
RunningFlagAgrees ==
    /\ Quiescent => (tray.running <=> tray.alive # {})
    /\ tray.notified \cap tray.stopped = {}

====
